---------------------------- MODULE Spec2Model ----------------------------
(***************************************************************************)
(* Quality Check Engine of the OMOP Quality Dashboard: the checker base    *)
(* class, the five category checkers, the checker registry and the summary *)
(* rollup (src/app/quality_checks).                                        *)
(*                                                                         *)
(* Conventions of the model                                                *)
(*   - a Python dict with optional keys is a record whose optional fields  *)
(*     are options: <<>> when the key is absent, <<v>> when it is present; *)
(*   - a pandas DataFrame is the sequence of its rows, a row a record of   *)
(*     the columns the code reads; an answer of the data source is either  *)
(*     a frame or a raised exception;                                      *)
(*   - percentages are whole numbers of percent: every cutoff of the code  *)
(*     is a whole number, so each class of the classification has a whole  *)
(*     representative.                                                     *)
(***************************************************************************)
EXTENDS Integers, Sequences, FiniteSets, TLC

VARIABLES
    source,     \* what data source 1 answers: [ans, missing]
    connected,  \* whether data source 1's connectivity probe succeeds
    registry,   \* QUALITY_CHECKERS: checker name -> class
    checkers,   \* the checker instances constructed so far, in order
    lastOp      \* the last call made on the engine and how it ended

vars == <<source, connected, registry, checkers, lastOp>>

-----------------------------------------------------------------------------
(* Bounds of the model *)

\* how many query answers of the data source may differ from its baseline
MaxDeviations == 1

\* how many checker instances the factory may construct in one behaviour
MaxCheckers == 2

-----------------------------------------------------------------------------
(* Generic helpers *)

RECURSIVE Flatten(_)
\* concatenation of a sequence of sequences (list.append in a for loop)
Flatten(ss) == IF ss = <<>> THEN <<>> ELSE Head(ss) \o Flatten(Tail(ss))

RECURSIVE SumSeq(_)
\* sum of a sequence of numbers
SumSeq(s) == IF s = <<>> THEN 0 ELSE Head(s) + SumSeq(Tail(s))

\* all(d['status'] == s for d in data) / any(d['status'] == s for d in data)
AllStatus(data, s) == \A i \in 1..Len(data) : data[i].status = s
AnyStatus(data, s) == \E i \in 1..Len(data) : data[i].status = s

Some(v) == <<v>>
None == <<>>

-----------------------------------------------------------------------------
(* Status and check results *)

Status == {"PASS", "WARNING", "FAIL", "ERROR"}

\* the text of the exception a failing query raises
DbErrorText == "Database error"

\* a result dict of one named check
\* (metrics: the named numbers the dict carries beside status and data)
CheckResult(status, message, data, metrics) ==
    [status |-> status, message |-> Some(message), error |-> None,
     data |-> data, metrics |-> metrics]

\* a result dict that carries no named number
NoMetrics == <<>>

\* (an except clause that reports the failure as a WARNING)
ErrorResultAsWarning(message, err) ==
    [status |-> "WARNING", message |-> Some(message), error |-> Some(err),
     data |-> <<>>, metrics |-> <<>>]

\* a result dict built in an except clause of a check
ErrorResult(message, err) ==
    [status |-> "ERROR", message |-> Some(message), error |-> Some(err),
     data |-> <<>>, metrics |-> NoMetrics]

\* a sub-record appended to the data list of a check
SubRecord(name, status, value) ==
    [name |-> name, status |-> status, value |-> Some(value), error |-> None]

\* a sub-record appended in the except clause of one sub-query
SubError(name, err) ==
    [name |-> name, status |-> "ERROR", value |-> None, error |-> Some(err)]

\* (a check that lets the exception of a failed query leave it instead of
\* returning its ERROR result)
OutcomeOrRaise(res, calls) ==
    [res |-> res, calls |-> calls, raised |-> res.status = "ERROR"]

\* what a check hands back to run_checks: its result dict, the number of
\* execute_query calls it made, and whether an exception left the check
Outcome(res, calls) == [res |-> res, calls |-> calls, raised |-> FALSE]

-----------------------------------------------------------------------------
(* Data Source Port *)

\* an answer of execute_query: a frame, or an exception
Frame(rows) == [raise |-> FALSE, rows |-> rows]
Raise == [raise |-> TRUE, rows |-> <<>>]
Empty == Frame(<<>>)


\* database.execute_query(q): the answer the data source gives to query q
ExecuteQuery(db, q) == db.ans[q]

\* database.table_exists(t)
DbTableExists(db, t) == t \notin db.missing

\* database.test_connection()
DbTestConnection(db) == db.connected

-----------------------------------------------------------------------------
(* CompletenessChecker *)

\* table_key_fields: the tables whose key fields are checked for nulls
TableKeyFields ==
    {"person", "condition_occurrence", "drug_exposure", "procedure_occurrence",
     "measurement", "visit_occurrence", "observation", "death"}

\* the classification of one table's null percentage
NullPercentageStatus(p) ==
    IF p = 0 THEN "PASS" ELSE IF p < 5 THEN "WARNING" ELSE "FAIL"

\* the body of the for loop of _check_table_completeness for one row of the
\* row-count frame: the sub-records it appends
TableCompletenessRow(db, row) ==
    IF row.row_count > 0 /\ row.table_name \in TableKeyFields
    THEN LET a == ExecuteQuery(db, <<"null_check", row.table_name>>)
         IN  IF a.raise THEN <<SubError(row.table_name, DbErrorText)>>
             ELSE IF a.rows = <<>> THEN <<>>
             ELSE <<SubRecord(row.table_name,
                              NullPercentageStatus(a.rows[1].null_percentage),
                              a.rows[1].null_percentage)>>
    ELSE <<>>

\* (an overall status that looks for a WARNING before it looks for a FAIL)
TableCompletenessOverallWarningFirst(data) ==
    IF data = <<>> THEN "WARNING"
    ELSE IF AllStatus(data, "PASS") THEN "PASS"
    ELSE IF AnyStatus(data, "WARNING") THEN "WARNING"
    ELSE "FAIL"

\* the overall status of table_completeness from its sub-records
TableCompletenessOverall(data) ==
    IF data = <<>> THEN "WARNING"
    ELSE IF AllStatus(data, "PASS") THEN "PASS"
    ELSE IF AnyStatus(data, "FAIL") THEN "FAIL"
    ELSE "WARNING"

CheckTableCompleteness(db) ==
    LET t == ExecuteQuery(db, <<"table_row_counts">>)
    IN  IF t.raise
        THEN Outcome(ErrorResult("Failed to check table completeness", DbErrorText), 1)
        ELSE IF t.rows = <<>>
        THEN Outcome(CheckResult("ERROR", "No table data found", <<>>, NoMetrics), 1)
        ELSE LET data == Flatten([i \in 1..Len(t.rows) |->
                                    TableCompletenessRow(db, t.rows[i])])
                 issued == Cardinality({i \in 1..Len(t.rows) :
                              /\ t.rows[i].row_count > 0
                              /\ t.rows[i].table_name \in TableKeyFields})
             IN  Outcome(CheckResult(TableCompletenessOverall(data),
                                     "Checked completeness for N tables",
                                     data, NoMetrics),
                         1 + issued)

\* critical_checks: the fields that must never be null (each with threshold 0)
CriticalChecks ==
    << "Person IDs in condition_occurrence",
       "Concept IDs in condition_occurrence",
       "Start dates in drug_exposure",
       "Person IDs in visit_occurrence",
       "Visit concept IDs in visit_occurrence" >>

\* 'threshold': 0 of every entry of critical_checks
CriticalThreshold == 0

\* (a critical-field check that lets a single null pass)
CriticalFieldRowTolerant(db, name) ==
    LET a == ExecuteQuery(db, <<"critical", name>>)
    IN  IF a.raise THEN <<SubError(name, DbErrorText)>>
        ELSE IF a.rows = <<>> THEN <<>>
        ELSE <<SubRecord(name,
                         IF a.rows[1].null_count <= 1 THEN "PASS" ELSE "FAIL",
                         a.rows[1].null_count)>>

\* the body of the for loop of _check_critical_fields for one field
CriticalFieldRow(db, name) ==
    LET a == ExecuteQuery(db, <<"critical", name>>)
    IN  IF a.raise THEN <<SubError(name, DbErrorText)>>
        ELSE IF a.rows = <<>> THEN <<>>
        ELSE <<SubRecord(name,
                         IF a.rows[1].null_count <= CriticalThreshold
                         THEN "PASS" ELSE "FAIL",
                         a.rows[1].null_count)>>

\* total_failures: the null counts of the sub-records with status FAIL
CriticalTotalFailures(data) ==
    SumSeq([i \in 1..Len(data) |->
              IF data[i].status = "FAIL" THEN data[i].value[1] ELSE 0])

CheckCriticalFields(db) ==
    LET data == Flatten([i \in 1..Len(CriticalChecks) |->
                           CriticalFieldRow(db, CriticalChecks[i])])
        total_failures == CriticalTotalFailures(data)
    IN  Outcome(CheckResult(IF total_failures = 0 THEN "PASS" ELSE "FAIL",
                            "Found N critical field violations",
                            data, [total_failures |-> total_failures]),
                Len(CriticalChecks))

\* the status of person_completeness from the row of the demographics query
PersonCompletenessStatus(row) ==
    LET issues == Cardinality({c \in {"invalid_birth_year_low",
                                      "invalid_birth_year_high",
                                      "unrealistic_age"} : row[c] > 0})
    IN  IF row.completeness_score >= 95 /\ issues = 0 THEN "PASS"
        ELSE IF row.completeness_score >= 85 THEN "WARNING"
        ELSE "FAIL"

CheckPersonCompleteness(db) ==
    LET a == ExecuteQuery(db, <<"person_demographics">>)
    IN  IF a.raise
        THEN Outcome(ErrorResult("Failed to check person table completeness",
                                 DbErrorText), 1)
        ELSE IF a.rows = <<>>
        THEN Outcome(CheckResult("ERROR", "No person data found", <<>>, NoMetrics), 1)
        ELSE IF a.rows[1].total_persons = 0
        THEN Outcome(CheckResult("ERROR", "No persons in person table", <<>>,
                                 NoMetrics), 1)
        ELSE Outcome(CheckResult(PersonCompletenessStatus(a.rows[1]),
                                 "Person table completeness: N%", <<>>,
                                 [completeness_score |-> a.rows[1].completeness_score]),
                     1)

\* the status of one clinical domain:
\*   completeness_score = 100 - (missing_source + missing_type) * 100 / total / 2
\*   PASS if score >= 80, WARNING if score >= 60, else FAIL
\* (score >= c  iff  (missing_source + missing_type) * 100 <= (100 - c) * 2 * total)
DomainScoreStatus(row) ==
    LET missing == row.missing_source_value + row.missing_type_concept
    IN  IF missing * 100 <= (100 - 80) * 2 * row.total THEN "PASS"
        ELSE IF missing * 100 <= (100 - 60) * 2 * row.total THEN "WARNING"
        ELSE "FAIL"

\* one of the two "Process ..." blocks of _check_domain_completeness
DomainCompletenessRow(db, domain, q) ==
    LET a == ExecuteQuery(db, q)
    IN  IF a.raise
        THEN <<SubError(domain, DbErrorText)>>
        ELSE IF a.rows = <<>> THEN <<>>
        ELSE IF a.rows[1].total > 0
        THEN <<SubRecord(domain, DomainScoreStatus(a.rows[1]), a.rows[1].total)>>
        ELSE <<>>

\* the overall status of domain_completeness from its sub-records
DomainCompletenessOverall(data) ==
    IF data = <<>> THEN "ERROR"
    ELSE IF \A i \in 1..Len(data) :
                data[i].status # "ERROR" => data[i].status = "PASS" THEN "PASS"
    ELSE IF AnyStatus(data, "FAIL") THEN "FAIL"
    ELSE "WARNING"

CheckDomainCompleteness(db) ==
    LET data == DomainCompletenessRow(db, "Condition", <<"conditions_domain">>)
                \o DomainCompletenessRow(db, "Drug", <<"drugs_domain">>)
    IN  Outcome(CheckResult(DomainCompletenessOverall(data),
                            "Checked completeness for N clinical domains",
                            data, NoMetrics), 2)

\* the named checks of CompletenessChecker.run_checks, in the order it runs them
CompletenessChecks ==
    <<"table_completeness", "critical_fields", "person_completeness",
      "domain_completeness">>

-----------------------------------------------------------------------------
(* TemporalChecker *)

\* the shared shape of _check_future_dates, _check_events_after_death and
\* _check_age_temporal_issues: one query whose rows carry a count in column
\* col; rows with a count of 0 are filtered out, the rest are summed
\* (onError: the result dict its except clause returns)
\* (a count check with a WARNING tier for a single finding)
CountRowsCheckLenient(db, q, col, onError, noneMessage, foundMessage) ==
    LET a == ExecuteQuery(db, q)
        total == SumSeq([i \in 1..Len(a.rows) |-> a.rows[i][col]])
    IN  IF a.raise THEN Outcome(onError, 1)
        ELSE Outcome(CheckResult(IF total = 0 THEN "PASS"
                                 ELSE IF total = 1 THEN "WARNING" ELSE "FAIL",
                                 foundMessage, <<>>, [total |-> total]), 1)

\* (a count check that keeps the rows with a count of 0 in its data)
CountRowsCheckUnfiltered(db, q, col, onError, noneMessage, foundMessage) ==
    LET a == ExecuteQuery(db, q)
        total == SumSeq([i \in 1..Len(a.rows) |-> a.rows[i][col]])
        data == [i \in 1..Len(a.rows) |->
                   SubRecord(a.rows[i].name,
                             IF a.rows[i][col] > 0 THEN "FAIL" ELSE "PASS",
                             a.rows[i][col])]
    IN  IF a.raise THEN Outcome(onError, 1)
        ELSE Outcome(CheckResult(IF total > 0 THEN "FAIL" ELSE "PASS",
                                 foundMessage, data, [total |-> total]), 1)

CountRowsCheck(db, q, col, onError, noneMessage, foundMessage) ==
    LET a == ExecuteQuery(db, q)
    IN  IF a.raise THEN Outcome(onError, 1)
        ELSE IF a.rows = <<>>
        THEN Outcome(CheckResult("PASS", noneMessage, <<>>, [total |-> 0]), 1)
        ELSE LET kept == SelectSeq(a.rows, LAMBDA r : r[col] > 0)
                 total == SumSeq([i \in 1..Len(kept) |-> kept[i][col]])
                 data == [i \in 1..Len(kept) |->
                            SubRecord(kept[i].name,
                                      IF kept[i][col] > 0 THEN "FAIL" ELSE "PASS",
                                      kept[i][col])]
             IN  IF kept = <<>>
                 THEN Outcome(CheckResult("PASS", noneMessage, <<>>,
                                          [total |-> 0]), 1)
                 ELSE Outcome(CheckResult(IF total > 0 THEN "FAIL" ELSE "PASS",
                                          foundMessage, data, [total |-> total]),
                              1)

CheckFutureDates(db) ==
    CountRowsCheck(db, <<"future_dates">>, "future_count",
                   ErrorResult("Failed to check future dates", DbErrorText), "No future dates found",
                   "Found N future dates across all tables")

\* (a birth/death check that looks at the deaths before birth only)
CheckBirthDeathConsistencyDatesOnly(db) ==
    LET a == ExecuteQuery(db, <<"birth_death">>)
        inconsistent_count == Len(a.rows)
    IN  IF a.raise
        THEN Outcome(ErrorResult("Failed to check birth/death consistency",
                                 DbErrorText), 1)
        ELSE Outcome(CheckResult(IF inconsistent_count = 0 THEN "PASS" ELSE "FAIL",
                                 "Found N deaths before birth", <<>>,
                                 [inconsistent_count |-> inconsistent_count]), 1)

CheckBirthDeathConsistency(db) ==
    LET a == ExecuteQuery(db, <<"birth_death">>)
        b == ExecuteQuery(db, <<"old_age_deaths">>)
        inconsistent_count == Len(a.rows)
        very_old_deaths == IF b.rows = <<>> THEN 0 ELSE b.rows[1].very_old_deaths
        total_issues == inconsistent_count + very_old_deaths
    IN  IF a.raise
        THEN Outcome(ErrorResult("Failed to check birth/death consistency",
                                 DbErrorText), 1)
        ELSE IF b.raise
        THEN Outcome(ErrorResult("Failed to check birth/death consistency",
                                 DbErrorText), 2)
        ELSE Outcome(CheckResult(IF total_issues = 0 THEN "PASS" ELSE "FAIL",
                                 "Found N deaths before birth and M very old deaths",
                                 <<>>,
                                 [inconsistent_count |-> inconsistent_count,
                                  very_old_deaths |-> very_old_deaths,
                                  total_issues |-> total_issues]), 2)

CheckEventsAfterDeath(db) ==
    CountRowsCheck(db, <<"events_after_death">>, "events_after_death",
                   ErrorResult("Failed to check events after death", DbErrorText),
                   "No events found after death",
                   "Found N events after death")

\* the status of visit_date_consistency from the row of its query
VisitDateStatus(row) ==
    LET total_issues == row.end_before_start + row.negative_duration
        warnings == row.very_long_visits
    IN  IF total_issues = 0 /\ warnings = 0 THEN "PASS"
        ELSE IF total_issues = 0 /\ warnings > 0 THEN "WARNING"
        ELSE "FAIL"

CheckVisitDateConsistency(db) ==
    LET a == ExecuteQuery(db, <<"visit_dates">>)
    IN  IF a.raise
        THEN Outcome(ErrorResult("Failed to check visit date consistency",
                                 DbErrorText), 1)
        ELSE IF a.rows = <<>>
        THEN Outcome(CheckResult("ERROR", "No visit data found", <<>>, NoMetrics), 1)
        ELSE Outcome(CheckResult(VisitDateStatus(a.rows[1]),
                                 "Found N visit date issues and M very long visits",
                                 <<>>,
                                 [total_issues |-> a.rows[1].end_before_start
                                                   + a.rows[1].negative_duration,
                                  warnings |-> a.rows[1].very_long_visits]), 1)

CheckAgeTemporalIssues(db) ==
    CountRowsCheck(db, <<"events_before_birth">>, "issue_count",
                   ErrorResult("Failed to check age-related temporal issues", DbErrorText),
                   "No age-related temporal issues found",
                   "Found N age-related temporal issues")

\* the named checks of TemporalChecker.run_checks, in the order it runs them
TemporalChecks ==
    <<"future_dates", "birth_death_consistency", "events_after_death",
      "visit_date_consistency", "age_temporal_issues">>

-----------------------------------------------------------------------------
(* ConceptMappingChecker *)

\* unmapped_queries: the domains checked for concept_id = 0
UnmappedDomains == <<"Condition", "Drug", "Procedure", "Measurement">>

\* (a classification whose cutoffs belong to the class below them)
UnmappedPercentageStatusInclusive(p) ==
    IF p <= 5 THEN "PASS" ELSE IF p <= 15 THEN "WARNING" ELSE "FAIL"

\* the classification of one domain's unmapped percentage
UnmappedPercentageStatus(p) ==
    IF p < 5 THEN "PASS" ELSE IF p < 15 THEN "WARNING" ELSE "FAIL"

\* the body of the for loop of _check_unmapped_concepts for one domain
UnmappedRow(db, domain) ==
    LET a == ExecuteQuery(db, <<"unmapped", domain>>)
    IN  IF a.raise THEN <<SubError(domain, DbErrorText)>>
        ELSE IF a.rows = <<>> THEN <<>>
        ELSE <<[name |-> domain,
                status |-> UnmappedPercentageStatus(a.rows[1].unmapped_percentage),
                value |-> Some(a.rows[1].unmapped_percentage),
                count |-> a.rows[1].unmapped_count,
                error |-> None]>>

\* the overall status of unmapped_concepts from its sub-records
UnmappedOverall(data) ==
    IF AnyStatus(data, "FAIL") THEN "FAIL"
    ELSE IF AnyStatus(data, "WARNING") THEN "WARNING"
    ELSE "PASS"

CheckUnmappedConcepts(db) ==
    LET data == Flatten([i \in 1..Len(UnmappedDomains) |->
                           UnmappedRow(db, UnmappedDomains[i])])
        total_unmapped == SumSeq([i \in 1..Len(data) |->
                                    IF data[i].status = "ERROR" THEN 0
                                    ELSE data[i].count])
    IN  Outcome(CheckResult(UnmappedOverall(data),
                            "Found N unmapped concepts across all domains",
                            data, [total_unmapped |-> total_unmapped]),
                Len(UnmappedDomains))

\* standard_usage: the percentage of the first row marked 'S', 0 without one
StandardUsage(rows) ==
    LET s == SelectSeq(rows, LAMBDA r : r.standard_concept = "S")
    IN  IF s = <<>> THEN 0 ELSE s[1].percentage

\* (a classification that wants more than 80 percent to pass)
StandardUsageStatusStrict(p) ==
    IF p > 80 THEN "PASS" ELSE IF p > 60 THEN "WARNING" ELSE "FAIL"

\* the classification of the standard-concept percentage
StandardUsageStatus(p) ==
    IF p >= 80 THEN "PASS" ELSE IF p >= 60 THEN "WARNING" ELSE "FAIL"

CheckStandardConceptUsage(db) ==
    LET a == ExecuteQuery(db, <<"standard_usage">>)
    IN  IF a.raise
        THEN Outcome(ErrorResult("Failed to check standard concept usage",
                                 DbErrorText), 1)
        ELSE IF a.rows = <<>>
        THEN Outcome(CheckResult("ERROR", "No concept usage data found", <<>>,
                                 NoMetrics), 1)
        ELSE Outcome(CheckResult(StandardUsageStatus(StandardUsage(a.rows)),
                                 "N% of concepts are standard concepts", <<>>,
                                 [standard_percentage |-> StandardUsage(a.rows)]),
                     1)

CheckVocabularyCoverage(db) ==
    LET a == ExecuteQuery(db, <<"vocabulary_coverage">>)
    IN  IF a.raise
        THEN Outcome(ErrorResult("Failed to check vocabulary coverage",
                                 DbErrorText), 1)
        ELSE IF a.rows = <<>>
        THEN Outcome(CheckResult("WARNING", "No vocabulary usage data found",
                                 <<>>, NoMetrics), 1)
        ELSE Outcome(CheckResult(IF Len(a.rows) >= 5 THEN "PASS" ELSE "WARNING",
                                 "Found N vocabularies in use", <<>>,
                                 [total_vocabularies |-> Len(a.rows)]), 1)

\* domain_checks: the domain tables whose concepts are checked for their domain
IntegrityDomains == <<"Condition", "Drug", "Procedure">>

\* the body of the for loop of _check_domain_integrity for one domain
DomainIntegrityRow(db, domain) ==
    LET a == ExecuteQuery(db, <<"domain_integrity", domain>>)
    IN  IF a.raise THEN <<SubError(domain, DbErrorText)>>
        ELSE IF a.rows = <<>> THEN <<>>
        ELSE <<SubRecord(domain,
                         IF a.rows[1].violation_count = 0 THEN "PASS" ELSE "FAIL",
                         a.rows[1].violation_count)>>

CheckDomainIntegrity(db) ==
    LET data == Flatten([i \in 1..Len(IntegrityDomains) |->
                           DomainIntegrityRow(db, IntegrityDomains[i])])
        total_violations == SumSeq([i \in 1..Len(data) |->
                                      IF data[i].status = "ERROR" THEN 0
                                      ELSE data[i].value[1]])
    IN  Outcome(CheckResult(IF total_violations = 0 THEN "PASS" ELSE "FAIL",
                            "Found N domain integrity violations",
                            data, [total_violations |-> total_violations]),
                Len(IntegrityDomains))

\* the named checks of ConceptMappingChecker.run_checks, in the order it runs them
ConceptMappingChecks ==
    <<"unmapped_concepts", "standard_concepts", "vocabulary_coverage",
      "domain_integrity">>

-----------------------------------------------------------------------------
(* The helpers ReferentialIntegrityChecker and StatisticalOutlierChecker call *)
(* on self. BaseQualityChecker (base_checker.py) does not define them; they   *)
(* are modelled from the Base Checker Contract of the specification.          *)

\* self.validate_database_connection(): the data source's connectivity probe
ValidateDatabaseConnection(db) == DbTestConnection(db)

\* self.table_exists(t): the data source's table probe
TableExists(db, t) == DbTableExists(db, t)

\* self.handle_error(check_name, e): the failure as a result dict
HandleError(check_name, err) == ErrorResult(check_name, err)

-----------------------------------------------------------------------------
(* ReferentialIntegrityChecker *)

CheckForeignKeyViolations(db) ==
    CountRowsCheck(db, <<"foreign_key_violations">>, "violation_count",
                   HandleError("foreign_key_violations", DbErrorText),
                   "No foreign key violations found",
                   "Found N foreign key violations")

\* orphan_checks: name and table of each orphan check
OrphanChecks ==
    << [name |-> "Conditions without visits", table |-> "condition_occurrence"],
       [name |-> "Drugs without visits", table |-> "drug_exposure"],
       [name |-> "Procedures without visits", table |-> "procedure_occurrence"],
       [name |-> "Measurements without person", table |-> "measurement"],
       [name |-> "Observations without person", table |-> "observation"] >>

\* the classification of an orphan count (of one check, and of their sum)
OrphanCountStatus(n) ==
    IF n = 0 THEN "PASS" ELSE IF n < 100 THEN "WARNING" ELSE "FAIL"

\* the body of the for loop of _check_orphaned_records for one orphan check
OrphanRow(db, check) ==
    IF ~TableExists(db, check.table) THEN <<>>
    ELSE LET a == ExecuteQuery(db, <<"orphans", check.name>>)
         IN  IF a.raise THEN <<SubError(check.name, DbErrorText)>>
             ELSE IF a.rows = <<>> THEN <<>>
             ELSE <<SubRecord(check.name,
                              OrphanCountStatus(a.rows[1].orphan_count),
                              a.rows[1].orphan_count)>>

\* (an overall status of orphaned_records taken from the orphan count alone)
OrphanOverallCountsOnly(data, total_orphans) ==
    OrphanCountStatus(total_orphans)

\* the overall status of orphaned_records
OrphanOverall(data, total_orphans) ==
    IF AnyStatus(data, "ERROR") THEN "ERROR"
    ELSE OrphanCountStatus(total_orphans)

CheckOrphanedRecords(db) ==
    LET data == Flatten([i \in 1..Len(OrphanChecks) |-> OrphanRow(db, OrphanChecks[i])])
        total_orphans == SumSeq([i \in 1..Len(data) |->
                                   IF data[i].status = "ERROR" THEN 0
                                   ELSE data[i].value[1]])
    IN  Outcome(CheckResult(OrphanOverall(data, total_orphans),
                            "Found N orphaned records", data,
                            [total_orphans |-> total_orphans]),
                Cardinality({i \in 1..Len(OrphanChecks) :
                               TableExists(db, OrphanChecks[i].table)}))

\* clinical_tables of _check_person_id_consistency
ClinicalTables ==
    {"condition_occurrence", "drug_exposure", "procedure_occurrence",
     "measurement", "observation", "visit_occurrence"}

CheckPersonIdConsistency(db) ==
    LET a == ExecuteQuery(db, <<"person_consistency">>)
        missing_persons == a.rows[1].clinical_persons_missing_from_person_table
    IN  IF ~TableExists(db, "person")
        THEN Outcome(CheckResult("ERROR", "Person table not found", <<>>,
                                 NoMetrics), 0)
        ELSE IF \A t \in ClinicalTables : ~TableExists(db, t)
        THEN Outcome(CheckResult("WARNING",
                        "No clinical tables found to check person ID consistency",
                        <<>>, [missing_persons |-> 0]), 0)
        ELSE IF a.raise
        THEN Outcome(HandleError("person_id_consistency", DbErrorText), 1)
        ELSE IF a.rows = <<>>
        THEN Outcome(CheckResult("ERROR", "Failed to analyze person ID consistency",
                                 <<>>, NoMetrics), 1)
        ELSE Outcome(CheckResult(IF missing_persons = 0 THEN "PASS" ELSE "FAIL",
                        "Found N person IDs in clinical tables missing from person table",
                        <<>>,
                        [missing_persons |-> missing_persons,
                         missing_references |-> a.rows[1].total_missing_references]),
                     IF missing_persons > 0 THEN 2 ELSE 1)

\* total_issues of visit_relationships: the five counts of the visit query plus
\* the orphaned visit details, when that table exists and its query answers
VisitRelationshipIssues(db, row) ==
    LET d == ExecuteQuery(db, <<"visit_detail_orphans">>)
        own == row.visits_without_ids + row.visits_without_person
               + row.visits_without_start_date + row.visits_end_before_start
               + row.visits_without_concept
    IN  IF TableExists(db, "visit_detail") /\ ~d.raise /\ d.rows # <<>>
        THEN own + d.rows[1].orphaned_visit_details
        ELSE own

CheckVisitRelationships(db) ==
    LET a == ExecuteQuery(db, <<"visit_checks">>)
        total_issues == VisitRelationshipIssues(db, a.rows[1])
    IN  IF ~TableExists(db, "visit_occurrence")
        THEN Outcome(CheckResult("WARNING", "Visit_occurrence table not found",
                                 <<>>, NoMetrics), 0)
        ELSE IF a.raise
        THEN Outcome(HandleError("visit_relationships", DbErrorText), 1)
        ELSE IF a.rows = <<>>
        THEN Outcome(CheckResult("ERROR", "No visit data found", <<>>, NoMetrics), 1)
        ELSE Outcome(CheckResult(IF total_issues = 0 THEN "PASS"
                                 ELSE IF total_issues < 10 THEN "WARNING"
                                 ELSE "FAIL",
                                 "Found N visit relationship issues", <<>>,
                                 [total_issues |-> total_issues]),
                     IF TableExists(db, "visit_detail") THEN 2 ELSE 1)

\* concept_checks: domain and table of each concept integrity check
ConceptChecks ==
    << [domain |-> "Condition", table |-> "condition_occurrence"],
       [domain |-> "Drug", table |-> "drug_exposure"],
       [domain |-> "Procedure", table |-> "procedure_occurrence"],
       [domain |-> "Measurement", table |-> "measurement"] >>

\* the body of the for loop of _check_concept_integrity for one domain
ConceptIntegrityRow(db, check) ==
    LET m == ExecuteQuery(db, <<"missing_concepts", check.domain>>)
        w == ExecuteQuery(db, <<"wrong_domain_concepts", check.domain>>)
        missing_count == IF m.rows = <<>> THEN 0 ELSE m.rows[1].missing_concepts
        wrong_domain_count ==
            IF w.rows = <<>> THEN 0 ELSE w.rows[1].wrong_domain_concepts
    IN  IF ~TableExists(db, check.table) THEN <<>>
        ELSE IF m.raise \/ w.raise THEN <<SubError(check.domain, DbErrorText)>>
        ELSE <<SubRecord(check.domain,
                         IF missing_count + wrong_domain_count = 0
                         THEN "PASS" ELSE "FAIL",
                         missing_count + wrong_domain_count)>>

\* the execute_query calls of one domain of _check_concept_integrity
ConceptIntegrityCalls(db, check) ==
    IF ~TableExists(db, check.table) THEN 0
    ELSE IF ExecuteQuery(db, <<"missing_concepts", check.domain>>).raise THEN 1
    ELSE 2

\* the overall status of concept_integrity
ConceptIntegrityOverall(data, total_violations) ==
    IF total_violations > 0 THEN "FAIL"
    ELSE IF AnyStatus(data, "ERROR") THEN "ERROR"
    ELSE "PASS"

CheckConceptIntegrity(db) ==
    LET data == Flatten([i \in 1..Len(ConceptChecks) |->
                           ConceptIntegrityRow(db, ConceptChecks[i])])
        total_violations == SumSeq([i \in 1..Len(data) |->
                                      IF data[i].status = "ERROR" THEN 0
                                      ELSE data[i].value[1]])
    IN  IF ~TableExists(db, "concept")
        THEN Outcome(CheckResult("WARNING",
                        "Concept table not found - skipping concept integrity check",
                        <<>>, NoMetrics), 0)
        ELSE Outcome(CheckResult(ConceptIntegrityOverall(data, total_violations),
                                 "Found N concept integrity violations", data,
                                 [total_violations |-> total_violations]),
                     SumSeq([i \in 1..Len(ConceptChecks) |->
                               ConceptIntegrityCalls(db, ConceptChecks[i])]))

\* the named checks of ReferentialIntegrityChecker.run_checks, in the order it
\* runs them
ReferentialChecks ==
    <<"foreign_key_violations", "orphaned_records", "person_id_consistency",
      "visit_relationships", "concept_integrity">>

-----------------------------------------------------------------------------
(* StatisticalOutlierChecker *)

\* the shared shape of _check_age_outliers and _check_drug_quantity_outliers:
\* the outliers are the rows of the query; fewer than failFrom of them is a
\* WARNING, failFrom or more a FAIL
RowCountOutlierStatus(n, failFrom) ==
    IF n = 0 THEN "PASS" ELSE IF n < failFrom THEN "WARNING" ELSE "FAIL"

CheckAgeOutliers(db) ==
    LET a == ExecuteQuery(db, <<"age_outliers">>)
    IN  IF ~TableExists(db, "person")
        THEN Outcome(CheckResult("WARNING",
                        "Person table not found - skipping age outlier check",
                        <<>>, [outlier_count |-> 0]), 0)
        ELSE IF a.raise THEN Outcome(HandleError("age_outliers", DbErrorText), 1)
        ELSE Outcome(CheckResult(RowCountOutlierStatus(Len(a.rows), 10),
                                 "Found N age outliers", <<>>,
                                 [outlier_count |-> Len(a.rows)]), 1)

CheckDrugQuantityOutliers(db) ==
    LET a == ExecuteQuery(db, <<"drug_quantity_outliers">>)
    IN  IF ~TableExists(db, "drug_exposure")
        THEN Outcome(CheckResult("WARNING",
                        "Drug_exposure table not found - skipping drug quantity outlier check",
                        <<>>, [outlier_count |-> 0]), 0)
        ELSE IF a.raise
        THEN Outcome(HandleError("drug_quantity_outliers", DbErrorText), 1)
        ELSE Outcome(CheckResult(RowCountOutlierStatus(Len(a.rows), 50),
                                 "Found N drug quantity outliers", <<>>,
                                 [outlier_count |-> Len(a.rows)]), 2)

\* outlier_measurements: the rows of the measurement query marked OUTLIER
OutlierMeasurements(rows) ==
    SelectSeq(rows, LAMBDA r : r.outlier_status = "OUTLIER")

CheckMeasurementOutliers(db) ==
    LET a == ExecuteQuery(db, <<"measurement_outliers">>)
        outlier_count == Len(OutlierMeasurements(a.rows))
    IN  IF ~TableExists(db, "measurement")
        THEN Outcome(CheckResult("WARNING",
                        "Measurement table not found - skipping measurement outlier check",
                        <<>>, [outlier_count |-> 0]), 0)
        ELSE IF a.raise
        THEN Outcome(HandleError("measurement_outliers", DbErrorText), 1)
        ELSE IF a.rows = <<>>
        THEN Outcome(CheckResult("WARNING",
                        "No measurement data available for analysis", <<>>,
                        [outlier_count |-> 0]), 1)
        ELSE Outcome(CheckResult(IF outlier_count = 0 THEN "PASS" ELSE "WARNING",
                                 "Found N measurements with outlier ranges", <<>>,
                                 [outlier_count |-> outlier_count]),
                     1 + (IF outlier_count < 5 THEN outlier_count ELSE 5))

CheckVisitDurationOutliers(db) ==
    LET a == ExecuteQuery(db, <<"visit_duration">>)
        total_outliers ==
            SumSeq([i \in 1..Len(a.rows) |-> a.rows[i].negative_durations])
            + SumSeq([i \in 1..Len(a.rows) |-> a.rows[i].very_long_visits])
    IN  IF ~TableExists(db, "visit_occurrence")
        THEN Outcome(CheckResult("WARNING",
                        "Visit_occurrence table not found - skipping visit duration outlier check",
                        <<>>, [total_outliers |-> 0]), 0)
        ELSE IF a.raise
        THEN Outcome(HandleError("visit_duration_outliers", DbErrorText), 1)
        ELSE IF a.rows = <<>>
        THEN Outcome(CheckResult("WARNING", "No visit data available for analysis",
                                 <<>>, [total_outliers |-> 0]), 1)
        ELSE Outcome(CheckResult(IF total_outliers = 0 THEN "PASS"
                                 ELSE IF total_outliers < 20 THEN "WARNING"
                                 ELSE "FAIL",
                                 "Found N visit duration outliers", <<>>,
                                 [total_outliers |-> total_outliers]), 2)

\* the sum of column col over the rows whose column key matches: its value
\* is one of values
SumWhere(rows, col, key, values) ==
    SumSeq([i \in 1..Len(rows) |->
              IF rows[i][key] \in values THEN rows[i][col] ELSE 0])

\* the anomalies the gender block appends. str.contains('Male|MALE',
\* case=False) also matches a gender named Female, so male_pct sums both
GenderAnomalies(db) ==
    LET a == ExecuteQuery(db, <<"gender_distribution">>)
        male_pct == SumWhere(a.rows, "percentage", "gender", {"MALE", "FEMALE"})
        female_pct == SumWhere(a.rows, "percentage", "gender", {"FEMALE"})
        diff == IF male_pct >= female_pct THEN male_pct - female_pct
                ELSE female_pct - male_pct
    IN  IF ~TableExists(db, "person") THEN 0
        ELSE IF a.raise THEN 1
        ELSE IF a.rows = <<>> THEN 0
        ELSE (IF diff > 30 THEN 1 ELSE 0)
             + (IF male_pct < 10 \/ female_pct < 10 THEN 1 ELSE 0)

\* the anomalies the age block appends
AgeAnomalies(db) ==
    LET a == ExecuteQuery(db, <<"age_distribution">>)
        under_18 == SumWhere(a.rows, "percentage", "age_group", {"Under 18"})
        over_70 == SumWhere(a.rows, "percentage", "age_group", {"Over 70"})
        groups == {a.rows[i].age_group : i \in 1..Len(a.rows)}
    IN  IF ~TableExists(db, "person") THEN 0
        ELSE IF a.raise THEN 1
        ELSE IF a.rows = <<>> THEN 0
        ELSE (IF under_18 > 50 THEN 1 ELSE 0)
             + (IF over_70 > 60 THEN 1 ELSE 0)
             + (IF {"18-30", "31-50", "51-70"} \ groups # {} THEN 1 ELSE 0)

RECURSIVE SortByYear(_)
\* density_result.sort_values('year')
SortByYear(rows) ==
    IF rows = <<>> THEN <<>>
    ELSE LET m == CHOOSE i \in 1..Len(rows) :
                    \A j \in 1..Len(rows) :
                        rows[i].year < rows[j].year
                        \/ (rows[i].year = rows[j].year /\ i <= j)
         IN  <<rows[m]>> \o SortByYear([k \in 1..(Len(rows) - 1) |->
                                          IF k < m THEN rows[k] ELSE rows[k + 1]])

\* the anomalies the data density block appends: one for each year whose
\* volume dropped by more than 50% or rose by more than 200%
DensityAnomalies(db) ==
    LET a == ExecuteQuery(db, <<"data_density">>)
        s == SortByYear(a.rows)
    IN  IF ~TableExists(db, "condition_occurrence") THEN 0
        ELSE IF a.raise THEN 1
        ELSE Cardinality({i \in 2..Len(s) :
                /\ s[i - 1].total_conditions > 0
                /\ LET change == (s[i].total_conditions - s[i - 1].total_conditions) * 100
                   IN  \/ change < (-50) * s[i - 1].total_conditions
                       \/ change > 200 * s[i - 1].total_conditions})

\* the anomalies the duplicates block appends
DuplicateAnomalies(db) ==
    LET a == ExecuteQuery(db, <<"duplicates">>)
    IN  IF ~TableExists(db, "condition_occurrence") THEN 0
        ELSE IF a.raise THEN 1
        ELSE IF a.rows = <<>> THEN 0
        ELSE IF a.rows[1].total_duplicate_records > 100 THEN 1 ELSE 0

CheckDistributionAnomalies(db) ==
    LET anomaly_count == GenderAnomalies(db) + AgeAnomalies(db)
                         + DensityAnomalies(db) + DuplicateAnomalies(db)
    IN  Outcome(CheckResult(IF anomaly_count = 0 THEN "PASS"
                            ELSE IF anomaly_count <= 2 THEN "WARNING"
                            ELSE "FAIL",
                            "Found N distribution anomalies", <<>>,
                            [anomaly_count |-> anomaly_count]),
                (IF TableExists(db, "person") THEN 2 ELSE 0)
                + (IF TableExists(db, "condition_occurrence") THEN 2 ELSE 0))

\* the named checks of StatisticalOutlierChecker.run_checks, in the order it
\* runs them
StatisticalChecks ==
    <<"age_outliers", "drug_quantity_outliers", "measurement_outliers",
      "visit_duration_outliers", "distribution_anomalies">>

-----------------------------------------------------------------------------
(* The answers of the data source the model explores.                        *)
(* A query is named by a tuple of strings: the query family and, where the   *)
(* code builds one query per table, domain or field, that name. The queries  *)
(* whose answer no check lets influence its result (the summary statistics   *)
(* and detail records fetched inside their own try/except) have no entry;    *)
(* the checks count the calls they cost.                                      *)

\* n rows of a frame of which the code reads only the length
Rows(n) == [i \in 1..n |-> [row |-> i]]

\* a one-row frame of counts
CountRow(col, n) == <<[c \in {col} |-> n]>>

\* the row of get_person_demographics_quality
PersonRow(total, score, low, high, age) ==
    <<[total_persons |-> total, completeness_score |-> score,
       invalid_birth_year_low |-> low, invalid_birth_year_high |-> high,
       unrealistic_age |-> age]>>

\* the row of a domain query of _check_domain_completeness
DomainRow(total, source_value, type_concept) ==
    <<[total |-> total, missing_source_value |-> source_value,
       missing_type_concept |-> type_concept]>>

\* a two-row frame of a UNION ALL query of counts
TwoCounts(col, a, b) ==
    <<[name |-> "condition_occurrence"] @@ [c \in {col} |-> a],
      [name |-> "drug_exposure"] @@ [c \in {col} |-> b]>>

\* the row of the visit query of _check_visit_date_consistency
VisitDatesRow(end_before_start, negative, long) ==
    <<[end_before_start |-> end_before_start, negative_duration |-> negative,
       very_long_visits |-> long]>>

\* the row of an unmapped-concepts query over 100 records
UnmappedFrame(pct) ==
    <<[total_records |-> 100, unmapped_count |-> pct, unmapped_percentage |-> pct]>>

\* the row of the visit query of _check_visit_relationships
VisitChecksRow(without_ids, end_before_start) ==
    <<[visits_without_ids |-> without_ids, visits_without_person |-> 0,
       visits_without_start_date |-> 0,
       visits_end_before_start |-> end_before_start,
       visits_without_concept |-> 0]>>

\* the frames the model lets the data source answer a query with: the first
\* is its answer in a healthy data set, the second its answer in a bad one
Frames(q) ==
    CASE q[1] = "table_row_counts" ->
           << <<[table_name |-> "person", row_count |-> 5],
                [table_name |-> "death", row_count |-> 5]>>,
              <<[table_name |-> "person", row_count |-> 5],
                [table_name |-> "death", row_count |-> 5]>>,
              <<[table_name |-> "person", row_count |-> 0],
                [table_name |-> "death", row_count |-> 5]>>,
              <<[table_name |-> "person", row_count |-> 0]>>,
              <<[table_name |-> "location", row_count |-> 5]>> >>
      [] q[1] = "null_check" ->
           << CountRow("null_percentage", 0), CountRow("null_percentage", 25),
              CountRow("null_percentage", 4), CountRow("null_percentage", 5),
              CountRow("null_percentage", 10) >>
      [] q[1] = "critical" ->
           << CountRow("null_count", 0), CountRow("null_count", 3),
              CountRow("null_count", 1) >>
      [] q[1] = "person_demographics" ->
           << PersonRow(10, 100, 0, 0, 0), PersonRow(10, 80, 1, 0, 0),
              PersonRow(10, 95, 0, 0, 0), PersonRow(10, 95, 0, 0, 1),
              PersonRow(10, 94, 0, 0, 0), PersonRow(10, 85, 0, 1, 0),
              PersonRow(10, 84, 0, 0, 0), PersonRow(0, 0, 0, 0, 0) >>
      [] q[1] \in {"conditions_domain", "drugs_domain"} ->
           << DomainRow(10, 0, 0), DomainRow(10, 10, 10), DomainRow(10, 4, 0),
              DomainRow(10, 5, 0), DomainRow(10, 8, 0), DomainRow(10, 9, 0),
              DomainRow(0, 0, 0) >>
      [] q[1] = "future_dates" ->
           << TwoCounts("future_count", 0, 0), TwoCounts("future_count", 2, 0),
              TwoCounts("future_count", 1, 1),
              TwoCounts("future_count", 0, 1) >>
      [] q[1] = "birth_death" -> << Rows(0), Rows(1), Rows(2) >>
      [] q[1] = "old_age_deaths" ->
           << CountRow("very_old_deaths", 0), CountRow("very_old_deaths", 1) >>
      [] q[1] = "events_after_death" ->
           << TwoCounts("events_after_death", 0, 0),
              TwoCounts("events_after_death", 2, 0),
              TwoCounts("events_after_death", 1, 1),
              TwoCounts("events_after_death", 0, 1) >>
      [] q[1] = "visit_dates" ->
           << VisitDatesRow(0, 0, 0), VisitDatesRow(1, 1, 0),
              VisitDatesRow(0, 0, 1), VisitDatesRow(1, 1, 1) >>
      [] q[1] = "events_before_birth" ->
           << TwoCounts("issue_count", 0, 0), TwoCounts("issue_count", 2, 0),
              TwoCounts("issue_count", 1, 1) >>
      [] q[1] = "unmapped" ->
           << UnmappedFrame(0), UnmappedFrame(15), UnmappedFrame(4),
              UnmappedFrame(5), UnmappedFrame(14) >>
      [] q[1] = "standard_usage" ->
           << <<[standard_concept |-> "S", percentage |-> 100]>>,
              <<[standard_concept |-> "S", percentage |-> 59],
                [standard_concept |-> "NULL", percentage |-> 41]>>,
              <<[standard_concept |-> "S", percentage |-> 80],
                [standard_concept |-> "C", percentage |-> 20]>>,
              <<[standard_concept |-> "NULL", percentage |-> 21],
                [standard_concept |-> "S", percentage |-> 79]>>,
              <<[standard_concept |-> "S", percentage |-> 60],
                [standard_concept |-> "C", percentage |-> 40]>>,
              <<[standard_concept |-> "C", percentage |-> 100]>> >>
      [] q[1] = "vocabulary_coverage" -> << Rows(5), Rows(1), Rows(4) >>
      [] q[1] = "domain_integrity" ->
           << CountRow("violation_count", 0), CountRow("violation_count", 2) >>
      [] q[1] = "foreign_key_violations" ->
           << TwoCounts("violation_count", 0, 0),
              TwoCounts("violation_count", 2, 0),
              TwoCounts("violation_count", 1, 1) >>
      [] q[1] = "orphans" ->
           << CountRow("orphan_count", 0), CountRow("orphan_count", 100),
              CountRow("orphan_count", 1), CountRow("orphan_count", 99) >>
      [] q[1] = "person_consistency" ->
           << <<[clinical_persons_missing_from_person_table |-> 0,
                 total_missing_references |-> 0]>>,
              <<[clinical_persons_missing_from_person_table |-> 2,
                 total_missing_references |-> 3]>> >>
      [] q[1] = "visit_checks" ->
           << VisitChecksRow(0, 0), VisitChecksRow(5, 5), VisitChecksRow(1, 0),
              VisitChecksRow(5, 4) >>
      [] q[1] = "visit_detail_orphans" ->
           << CountRow("orphaned_visit_details", 0),
              CountRow("orphaned_visit_details", 1) >>
      [] q[1] = "missing_concepts" ->
           << CountRow("missing_concepts", 0), CountRow("missing_concepts", 1) >>
      [] q[1] = "wrong_domain_concepts" ->
           << CountRow("wrong_domain_concepts", 0),
              CountRow("wrong_domain_concepts", 1) >>
      [] q[1] = "age_outliers" -> << Rows(0), Rows(10), Rows(1), Rows(9) >>
      [] q[1] = "drug_quantity_outliers" ->
           << Rows(0), Rows(50), Rows(1), Rows(49) >>
      [] q[1] = "measurement_outliers" ->
           << <<[concept |-> "heart rate", outlier_status |-> "NORMAL"]>>,
              <<[concept |-> "heart rate", outlier_status |-> "OUTLIER"],
                [concept |-> "temperature", outlier_status |-> "NORMAL"]>>,
              [i \in 1..6 |-> [concept |-> "heart rate",
                               outlier_status |-> "OUTLIER"]] >>
      [] q[1] = "visit_duration" ->
           << <<[negative_durations |-> 0, very_long_visits |-> 0]>>,
              <<[negative_durations |-> 10, very_long_visits |-> 5],
                [negative_durations |-> 0, very_long_visits |-> 5]>>,
              <<[negative_durations |-> 0, very_long_visits |-> 1]>>,
              <<[negative_durations |-> 10, very_long_visits |-> 9]>> >>
      [] q[1] = "gender_distribution" ->
           << <<[gender |-> "MALE", percentage |-> 30],
                [gender |-> "FEMALE", percentage |-> 70]>>,
              <<[gender |-> "MALE", percentage |-> 95],
                [gender |-> "FEMALE", percentage |-> 5]>>,
              <<[gender |-> "MALE", percentage |-> 50],
                [gender |-> "FEMALE", percentage |-> 50]>> >>
      [] q[1] = "age_distribution" ->
           << <<[age_group |-> "18-30", percentage |-> 30],
                [age_group |-> "31-50", percentage |-> 40],
                [age_group |-> "51-70", percentage |-> 30]>>,
              <<[age_group |-> "Under 18", percentage |-> 100]>>,
              <<[age_group |-> "18-30", percentage |-> 10],
                [age_group |-> "31-50", percentage |-> 10],
                [age_group |-> "51-70", percentage |-> 10],
                [age_group |-> "Over 70", percentage |-> 70]>> >>
      [] q[1] = "data_density" ->
           << <<[year |-> 2020, total_conditions |-> 100],
                [year |-> 2021, total_conditions |-> 100]>>,
              <<[year |-> 2021, total_conditions |-> 10],
                [year |-> 2020, total_conditions |-> 100]>>,
              <<[year |-> 2020, total_conditions |-> 10],
                [year |-> 2021, total_conditions |-> 100]>> >>
      [] q[1] = "duplicates" ->
           << CountRow("total_duplicate_records", 0),
              CountRow("total_duplicate_records", 101) >>


\* the elements of a sequence
Range(s) == {s[i] : i \in 1..Len(s)}

\* the classes of QUALITY_CHECKERS
Classes ==
    {"CompletenessChecker", "TemporalChecker", "ConceptMappingChecker",
     "ReferentialIntegrityChecker", "StatisticalOutlierChecker"}

\* the named checks of a checker of class cls
ChecksOf(cls) ==
    CASE cls = "CompletenessChecker" -> CompletenessChecks
      [] cls = "TemporalChecker" -> TemporalChecks
      [] cls = "ConceptMappingChecker" -> ConceptMappingChecks
      [] cls = "ReferentialIntegrityChecker" -> ReferentialChecks
      [] cls = "StatisticalOutlierChecker" -> StatisticalChecks

\* the queries whose answer a named check of CompletenessChecker reads
CompletenessReads(name) ==
    CASE name = "table_completeness" ->
           {<<"table_row_counts">>}
           \cup {<<"null_check", t>> : t \in {"person", "death"}}
      [] name = "critical_fields" ->
           {<<"critical", n>> : n \in Range(CriticalChecks)}
      [] name = "person_completeness" -> {<<"person_demographics">>}
      [] name = "domain_completeness" ->
           {<<"conditions_domain">>, <<"drugs_domain">>}

\* the queries whose answer a named check of TemporalChecker reads
TemporalReads(name) ==
    CASE name = "future_dates" -> {<<"future_dates">>}
      [] name = "birth_death_consistency" ->
           {<<"birth_death">>, <<"old_age_deaths">>}
      [] name = "events_after_death" -> {<<"events_after_death">>}
      [] name = "visit_date_consistency" -> {<<"visit_dates">>}
      [] name = "age_temporal_issues" -> {<<"events_before_birth">>}

\* the queries whose answer a named check of ConceptMappingChecker reads
ConceptMappingReads(name) ==
    CASE name = "unmapped_concepts" ->
           {<<"unmapped", d>> : d \in Range(UnmappedDomains)}
      [] name = "standard_concepts" -> {<<"standard_usage">>}
      [] name = "vocabulary_coverage" -> {<<"vocabulary_coverage">>}
      [] name = "domain_integrity" ->
           {<<"domain_integrity", d>> : d \in Range(IntegrityDomains)}

\* the queries whose answer a named check of ReferentialIntegrityChecker reads
ReferentialReads(name) ==
    CASE name = "foreign_key_violations" -> {<<"foreign_key_violations">>}
      [] name = "orphaned_records" ->
           {<<"orphans", c.name>> : c \in Range(OrphanChecks)}
      [] name = "person_id_consistency" -> {<<"person_consistency">>}
      [] name = "visit_relationships" ->
           {<<"visit_checks">>, <<"visit_detail_orphans">>}
      [] name = "concept_integrity" ->
           {<<"missing_concepts", c.domain>> : c \in Range(ConceptChecks)}
           \cup {<<"wrong_domain_concepts", c.domain>> : c \in Range(ConceptChecks)}

\* the queries whose answer a named check of StatisticalOutlierChecker reads
StatisticalReads(name) ==
    CASE name = "age_outliers" -> {<<"age_outliers">>}
      [] name = "drug_quantity_outliers" -> {<<"drug_quantity_outliers">>}
      [] name = "measurement_outliers" -> {<<"measurement_outliers">>}
      [] name = "visit_duration_outliers" -> {<<"visit_duration">>}
      [] name = "distribution_anomalies" ->
           {<<"gender_distribution">>, <<"age_distribution">>,
            <<"data_density">>, <<"duplicates">>}

\* the queries whose answer the named check of a checker of class cls reads
ReadsOf(cls, name) ==
    CASE cls = "CompletenessChecker" -> CompletenessReads(name)
      [] cls = "TemporalChecker" -> TemporalReads(name)
      [] cls = "ConceptMappingChecker" -> ConceptMappingReads(name)
      [] cls = "ReferentialIntegrityChecker" -> ReferentialReads(name)
      [] cls = "StatisticalOutlierChecker" -> StatisticalReads(name)

\* the queries whose answer a checker of class cls reads
QueriesOf(cls) == UNION {ReadsOf(cls, n) : n \in Range(ChecksOf(cls))}

\* the tables a checker of class cls asks table_exists about
TablesOf(cls) ==
    CASE cls = "ReferentialIntegrityChecker" ->
           ClinicalTables \cup {"person", "visit_detail", "concept"}
      [] cls = "StatisticalOutlierChecker" ->
           {"person", "drug_exposure", "measurement", "visit_occurrence",
            "condition_occurrence"}
      [] cls = "TemporalChecker" -> {"death"}
      [] OTHER -> {}

AllQueries == UNION {QueriesOf(cls) : cls \in Classes}

\* the baselines of a data source: a healthy data set, a bad one, a data
\* source every query of which raises, one every query of which is empty
Baselines == {"healthy", "bad", "raise", "empty"}

BaselineAnswer(b, q) ==
    CASE b = "healthy" -> Frame(Frames(q)[1])
      [] b = "bad" -> Frame(Frames(q)[2])
      [] b = "raise" -> Raise
      [] b = "empty" -> Empty

\* a data source that answers the queries qs as baseline b does, and in
\* which every table exists
BaselineSource(b, qs) ==
    [ans |-> [q \in qs |-> BaselineAnswer(b, q)], missing |-> {}]

\* the answers the model lets a data source give to query q
Answers(q) == {Raise, Empty} \cup {Frame(f) : f \in Range(Frames(q))}

\* the data sources that differ from s in the answer to one query, or in one
\* table that does not exist, among what a checker of class cls reads
Deviate(s, cls) ==
    UNION {{[s EXCEPT !.ans[q] = a] : a \in Answers(q)} : q \in QueriesOf(cls)}
    \cup {[s EXCEPT !.missing = @ \cup {t}] : t \in TablesOf(cls)}

RECURSIVE Deviations(_, _, _)
\* the data sources at most n such differences away from s
Deviations(s, cls, n) ==
    IF n = 0 THEN {s}
    ELSE LET nearer == Deviations(s, cls, n - 1)
         IN  nearer \cup UNION {Deviate(t, cls) : t \in nearer}

\* the data sources a behaviour of a checker of class cls may start from
Sources(cls) ==
    UNION {Deviations(BaselineSource(b, QueriesOf(cls)), cls, MaxDeviations) :
             b \in Baselines}

\* data source 2: a healthy, connected data source that never changes
ReferenceSource ==
    [ans |-> BaselineSource("healthy", AllQueries).ans, missing |-> {},
     connected |-> TRUE]

\* the data source objects a checker can be constructed over
Databases == {1, 2}

\* the tables the model lets a store lack
TableNames == UNION {TablesOf(cls) : cls \in Classes}

\* pd.read_sql of the probe "SELECT 1 FROM t LIMIT 1" over a store: it raises
\* when the store has no table t
ReadSqlProbe(store, t) ==
    IF t \in store.missing THEN Raise ELSE Frame(<<[probe |-> 1]>>)

\* OMOPDatabase.execute_query, given what pd.read_sql does with the query:
\* the frame read, or an empty DataFrame when reading raised (the exception
\* is logged and does not leave the method)
OMOPDatabase_execute_query(read_sql) ==
    IF read_sql.raise THEN Empty ELSE read_sql

\* OMOPDatabase.table_exists(t): True once execute_query has returned, False
\* in the except clause
OMOPDatabase_table_exists(store, t) ==
    LET result == OMOPDatabase_execute_query(ReadSqlProbe(store, t))
    IN  IF result.raise THEN FALSE ELSE TRUE

\* an OMOPDatabase over a store, as the checks see it
OMOPDatabase(store, conn) ==
    [ans |-> [q \in DOMAIN store.ans |-> OMOPDatabase_execute_query(store.ans[q])],
     missing |-> {t \in TableNames : ~OMOPDatabase_table_exists(store, t)},
     connected |-> conn]

\* the object number of the OMOPDatabase whose store is data source 1
OMOPObject == 3

\* the data source d as the checks see it in the current state
DataSource(d, src, conn) ==
    IF d = 1 THEN [ans |-> src.ans, missing |-> src.missing, connected |-> conn]
    ELSE IF d = OMOPObject THEN OMOPDatabase(src, conn)
    ELSE ReferenceSource

-----------------------------------------------------------------------------
(* run_checks *)

\* the value of a results map that has no entry
EmptyResults == <<>>

\* (a run that stores no entry for a check that ended in ERROR)
SetResultUnlessError(results, name, res) ==
    IF res.status = "ERROR" THEN results ELSE (name :> res) @@ results

\* (a run that marks a check as failed when a check before it has failed)
SetResultAfterError(results, name, res) ==
    IF \E k \in DOMAIN results : results[k].status = "ERROR"
    THEN (name :> [res EXCEPT !.status = "ERROR"]) @@ results
    ELSE (name :> res) @@ results

\* results[name] = res
SetResult(results, name, res) == (name :> res) @@ results

\* the dict a run_checks returns when connection validation fails
ConnectionFailed == [error |-> "Database connection failed", status |-> "ERROR"]

\* the private method each named check of a run_checks calls
RunCheck(name, db) ==
    CASE name = "table_completeness" -> CheckTableCompleteness(db)
      [] name = "critical_fields" -> CheckCriticalFields(db)
      [] name = "person_completeness" -> CheckPersonCompleteness(db)
      [] name = "domain_completeness" -> CheckDomainCompleteness(db)
      [] name = "future_dates" -> CheckFutureDates(db)
      [] name = "birth_death_consistency" -> CheckBirthDeathConsistency(db)
      [] name = "events_after_death" -> CheckEventsAfterDeath(db)
      [] name = "visit_date_consistency" -> CheckVisitDateConsistency(db)
      [] name = "age_temporal_issues" -> CheckAgeTemporalIssues(db)
      [] name = "unmapped_concepts" -> CheckUnmappedConcepts(db)
      [] name = "standard_concepts" -> CheckStandardConceptUsage(db)
      [] name = "vocabulary_coverage" -> CheckVocabularyCoverage(db)
      [] name = "domain_integrity" -> CheckDomainIntegrity(db)
      [] name = "foreign_key_violations" -> CheckForeignKeyViolations(db)
      [] name = "orphaned_records" -> CheckOrphanedRecords(db)
      [] name = "person_id_consistency" -> CheckPersonIdConsistency(db)
      [] name = "visit_relationships" -> CheckVisitRelationships(db)
      [] name = "concept_integrity" -> CheckConceptIntegrity(db)
      [] name = "age_outliers" -> CheckAgeOutliers(db)
      [] name = "drug_quantity_outliers" -> CheckDrugQuantityOutliers(db)
      [] name = "measurement_outliers" -> CheckMeasurementOutliers(db)
      [] name = "visit_duration_outliers" -> CheckVisitDurationOutliers(db)
      [] name = "distribution_anomalies" -> CheckDistributionAnomalies(db)

\* the state of a run_checks call: the results map of the checker, the
\* execute_query calls made so far, whether an exception has left the call,
\* and what the call returns
Run(results, calls, raised, ret) ==
    [results |-> results, calls |-> calls, raised |-> raised, ret |-> ret]

\* (a run that keeps what results held and merges its entries into it)
KeepResults(old) == old

\* (a run that notes in results that an earlier run had left entries there)
ResetResultsNotingRerun(old) ==
    IF old = EmptyResults THEN EmptyResults
    ELSE "rerun" :> CheckResult("PASS", "Results of an earlier run replaced",
                                <<>>, NoMetrics)

\* self.results = {}, the first statement of every run_checks
ResetResults(old) == EmptyResults

RECURSIVE RunNamedChecks(_, _, _)
\* the statements self.results[name] = self._check_name() of a run_checks, in
\* order, then return self.results; an exception that leaves a check leaves
\* run_checks at that statement
RunNamedChecks(names, db, run) ==
    IF run.raised THEN run
    ELSE IF names = <<>> THEN [run EXCEPT !.ret = run.results]
    ELSE LET o == RunCheck(Head(names), db)
         IN  IF o.raised
             THEN [run EXCEPT !.calls = @ + o.calls, !.raised = TRUE]
             ELSE RunNamedChecks(Tail(names), db,
                      [run EXCEPT !.results = SetResult(@, Head(names), o.res),
                                  !.calls = @ + o.calls])

\* CompletenessChecker.run_checks
CompletenessRunChecks(db, old) ==
    RunNamedChecks(CompletenessChecks, db, Run(ResetResults(old), 0, FALSE, None))

\* TemporalChecker.run_checks
TemporalRunChecks(db, old) ==
    RunNamedChecks(TemporalChecks, db, Run(ResetResults(old), 0, FALSE, None))

\* ConceptMappingChecker.run_checks
ConceptMappingRunChecks(db, old) ==
    RunNamedChecks(ConceptMappingChecks, db, Run(ResetResults(old), 0, FALSE, None))

\* ReferentialIntegrityChecker.run_checks
ReferentialRunChecks(db, old) ==
    IF ~ValidateDatabaseConnection(db)
    THEN Run(ResetResults(old), 0, FALSE, ConnectionFailed)
    ELSE RunNamedChecks(ReferentialChecks, db,
                        Run(ResetResults(old), 0, FALSE, None))

\* StatisticalOutlierChecker.run_checks
StatisticalRunChecks(db, old) ==
    IF ~ValidateDatabaseConnection(db)
    THEN Run(ResetResults(old), 0, FALSE, ConnectionFailed)
    ELSE RunNamedChecks(StatisticalChecks, db,
                        Run(ResetResults(old), 0, FALSE, None))

\* checker.run_checks(): the method of the checker's class
run_checks(cls, db, old) ==
    CASE cls = "CompletenessChecker" -> CompletenessRunChecks(db, old)
      [] cls = "TemporalChecker" -> TemporalRunChecks(db, old)
      [] cls = "ConceptMappingChecker" -> ConceptMappingRunChecks(db, old)
      [] cls = "ReferentialIntegrityChecker" -> ReferentialRunChecks(db, old)
      [] cls = "StatisticalOutlierChecker" -> StatisticalRunChecks(db, old)

-----------------------------------------------------------------------------
(* get_summary *)

\* how many entries of a results map have status s
CountStatus(results, s) ==
    Cardinality({k \in DOMAIN results : results[k].status = s})

\* (a summary that counts the ERROR entries among the failed ones)
get_summary_errors_as_failed(results) ==
    [total_checks |-> Cardinality(DOMAIN results),
     passed_checks |-> CountStatus(results, "PASS"),
     failed_checks |-> CountStatus(results, "FAIL") + CountStatus(results, "ERROR"),
     warning_checks |-> CountStatus(results, "WARNING")]

\* how many sub-records of the data lists of a results map have status s
CountSubRecords(results, keys, s) ==
    SumSeq([i \in 1..Len(keys) |->
              Len(SelectSeq(results[keys[i]].data, LAMBDA d : d.status = s))])

RECURSIVE SeqOfSet(_)
\* the elements of a finite set in some order
SeqOfSet(S) ==
    IF S = {} THEN <<>>
    ELSE LET x == CHOOSE x \in S : TRUE IN <<x>> \o SeqOfSet(S \ {x})

\* (a summary that counts every sub-record as a unit beside its parent)
get_summary_nested(results) ==
    LET keys == SeqOfSet(DOMAIN results)
        sub(s) == CountSubRecords(results, keys, s)
    IN  [total_checks |-> Cardinality(DOMAIN results)
                          + SumSeq([i \in 1..Len(keys) |-> Len(results[keys[i]].data)]),
         passed_checks |-> CountStatus(results, "PASS") + sub("PASS"),
         failed_checks |-> CountStatus(results, "FAIL") + sub("FAIL"),
         warning_checks |-> CountStatus(results, "WARNING") + sub("WARNING")]

\* BaseQualityChecker.get_summary
get_summary(results) ==
    [total_checks |-> Cardinality(DOMAIN results),
     passed_checks |-> CountStatus(results, "PASS"),
     failed_checks |-> CountStatus(results, "FAIL"),
     warning_checks |-> CountStatus(results, "WARNING")]

-----------------------------------------------------------------------------
(* The checker registry *)

\* QUALITY_CHECKERS
QUALITY_CHECKERS ==
    [n \in {"completeness", "temporal", "concept_mapping", "referential",
            "statistical"} |->
        CASE n = "completeness" -> "CompletenessChecker"
          [] n = "temporal" -> "TemporalChecker"
          [] n = "concept_mapping" -> "ConceptMappingChecker"
          [] n = "referential" -> "ReferentialIntegrityChecker"
          [] n = "statistical" -> "StatisticalOutlierChecker"]

\* (a constructor that binds every instance to data source 1)
NewCheckerOverDefault(cls, database) ==
    [cls |-> cls, database |-> 1, results |-> EmptyResults]

\* BaseQualityChecker.__init__: the instance a class constructs over database
NewChecker(cls, database) ==
    [cls |-> cls, database |-> database, results |-> EmptyResults]


\* (a factory that falls back to a completeness checker for an unknown name)
get_quality_checker_fallback(checker_name, database, reg) ==
    IF checker_name \in DOMAIN reg
    THEN [raised |-> "none", made |-> Some(NewChecker(reg[checker_name], database))]
    ELSE [raised |-> "none", made |-> Some(NewChecker("CompletenessChecker", database))]

\* get_quality_checker(checker_name, database) over the registry reg: the
\* exception it raises, if any, and the instance it constructs, if any
get_quality_checker(checker_name, database, reg) ==
    IF checker_name \in DOMAIN reg
    THEN [raised |-> "none", made |-> Some(NewChecker(reg[checker_name], database))]
    ELSE [raised |-> "ValueError", made |-> None]

-----------------------------------------------------------------------------
(* The state machine *)

\* how many keys client code may write into a results map
MaxClientKeys == 2

\* the keys client code writes into a results map
ClientKeyNames == <<"check1", "check2", "check3", "check4">>
ClientKeys == {ClientKeyNames[i] : i \in 1..MaxClientKeys}

\* the dict {'status': s} client code stores under such a key
ClientEntry(s) ==
    [status |-> s, message |-> None, error |-> None, data |-> <<>>,
     metrics |-> NoMetrics]

\* the names callers of the factory ask for: the registered ones and one
\* that is not registered
RequestNames == DOMAIN QUALITY_CHECKERS \cup {"nonexistent"}

\* the record of a call: the operation, the checker it was made on, the
\* name and database passed, the exception that left it, what it returned,
\* the execute_query calls it made, and the keys results had before it
Op(op, target, name, database, raised, ret, calls, had) ==
    [op |-> op, target |-> target, name |-> name, database |-> database,
     raised |-> raised, ret |-> ret, calls |-> calls, had |-> had]

NoOp == Op("none", 0, "", 0, "none", None, 0, {})

\* a caller asks the factory for a checker
GetQualityChecker(checker_name, database) ==
    LET g == get_quality_checker(checker_name, database, registry)
    IN  /\ g.made # None => Len(checkers) < MaxCheckers
        /\ checkers' = checkers \o g.made
        /\ lastOp' = Op("get_quality_checker", Len(checkers) + Len(g.made),
                        checker_name, database, g.raised, g.made, 0, {})
        /\ UNCHANGED <<source, connected, registry>>

\* (a run whose results map is shared by the checkers of one class)
RunChecksSharedResults(i) ==
    LET c == checkers[i]
        r == run_checks(c.cls, DataSource(c.database, source, connected), c.results)
    IN  /\ checkers' = [j \in 1..Len(checkers) |->
                          IF checkers[j].cls = c.cls
                          THEN [checkers[j] EXCEPT !.results = r.results]
                          ELSE checkers[j]]
        /\ lastOp' = Op("run_checks", i, "", c.database,
                        IF r.raised THEN "Exception" ELSE "none",
                        r.ret, r.calls, DOMAIN c.results)
        /\ UNCHANGED <<source, connected, registry>>

\* checker i runs its checks against its data source
RunChecks(i) ==
    LET c == checkers[i]
        r == run_checks(c.cls, DataSource(c.database, source, connected), c.results)
    IN  /\ checkers' = [checkers EXCEPT ![i].results = r.results]
        /\ lastOp' = Op("run_checks", i, "", c.database,
                        IF r.raised THEN "Exception" ELSE "none",
                        r.ret, r.calls, DOMAIN c.results)
        /\ UNCHANGED <<source, connected, registry>>

\* a caller asks checker i for its summary
GetSummary(i) ==
    /\ lastOp' = Op("get_summary", i, "", checkers[i].database, "none",
                    get_summary(checkers[i].results), 0, DOMAIN checkers[i].results)
    /\ UNCHANGED <<source, connected, registry, checkers>>

\* client code stores an entry in the results map of checker i
InsertResult(i, k, s) ==
    /\ checkers' = [checkers EXCEPT ![i].results = SetResult(@, k, ClientEntry(s))]
    /\ lastOp' = Op("insert", i, k, checkers[i].database, "none", None, 0,
                    DOMAIN checkers[i].results)
    /\ UNCHANGED <<source, connected, registry>>

\* data source 1 goes down or comes back
ToggleConnection ==
    /\ connected' = ~connected
    /\ lastOp' = Op("toggle", 0, "", 1, "none", None, 0, {})
    /\ UNCHANGED <<source, registry, checkers>>

\* One checker over data source 1, whose answers range over the data sources
\* near the baselines; the checker runs and is summarised.
Init ==
    /\ registry = QUALITY_CHECKERS
    /\ \E cls \in Classes :
          /\ checkers = <<NewChecker(cls, 1)>>
          /\ source \in Sources(cls)
    /\ connected \in BOOLEAN
    /\ lastOp = NoOp

Next ==
    \/ \E i \in 1..Len(checkers) : RunChecks(i)
    \/ \E i \in 1..Len(checkers) : GetSummary(i)

Spec == Init /\ [][Next]_vars

\* One checker over data source 1 at a baseline; client code writes into its
\* results between runs and summaries, and the data source goes up and down.
InitClient ==
    /\ registry = QUALITY_CHECKERS
    /\ \E cls \in Classes, b \in Baselines :
          /\ checkers = <<NewChecker(cls, 1)>>
          /\ source = BaselineSource(b, QueriesOf(cls))
    /\ connected \in BOOLEAN
    /\ lastOp = NoOp

NextClient ==
    \/ \E i \in 1..Len(checkers) : RunChecks(i)
    \/ \E i \in 1..Len(checkers) : GetSummary(i)
    \/ \E i \in 1..Len(checkers), k \in ClientKeys, s \in Status :
          InsertResult(i, k, s)
    \/ ToggleConnection

SpecClient == InitClient /\ [][NextClient]_vars

\* No checker yet: callers ask the factory for checkers over data source 1,
\* which holds a bad data set, or data source 2, and run and summarise the
\* checkers it constructed.
InitFactory ==
    /\ registry = QUALITY_CHECKERS
    /\ checkers = <<>>
    /\ source = BaselineSource("bad", AllQueries)
    /\ connected = TRUE
    /\ lastOp = NoOp

NextFactory ==
    \/ \E n \in RequestNames, d \in Databases : GetQualityChecker(n, d)
    \/ \E i \in 1..Len(checkers) : RunChecks(i)
    \/ \E i \in 1..Len(checkers) : GetSummary(i)

SpecFactory == InitFactory /\ [][NextFactory]_vars

\* One checker over data source 1, whose answers range over the data sources
\* near the baselines; the checker runs, again and again.
NextRuns == \E i \in 1..Len(checkers) : RunChecks(i)

SpecRuns == Init /\ [][NextRuns]_vars

\* the exception an interrupt (Ctrl-C, a cancelled worker) raises inside a
\* query; 'except Exception' does not catch it
Interrupt == "KeyboardInterrupt"

\* the run_checks of a checker of class cls, interrupted inside the first
\* query of the check that follows its first n checks: the interrupt leaves
\* the check and run_checks, which has stored the results of those n checks
InterruptedRunChecks(cls, db, old, n) ==
    LET run == RunNamedChecks(SubSeq(ChecksOf(cls), 1, n), db,
                              Run(ResetResults(old), 0, FALSE, None))
    IN  [run EXCEPT !.raised = TRUE, !.ret = None, !.calls = @ + 1]

\* checker i runs its checks and is interrupted after n of them
RunChecksInterrupted(i, n) ==
    LET c == checkers[i]
        db == DataSource(c.database, source, connected)
        r == InterruptedRunChecks(c.cls, db, c.results, n)
    IN  /\ c.cls \in {"ReferentialIntegrityChecker", "StatisticalOutlierChecker"}
              => ValidateDatabaseConnection(db)
        /\ checkers' = [checkers EXCEPT ![i].results = r.results]
        /\ lastOp' = Op("run_checks", i, "", c.database, Interrupt, r.ret,
                        r.calls, DOMAIN c.results)
        /\ UNCHANGED <<source, connected, registry>>

\* One checker over data source 1 at a baseline: its runs complete or are
\* interrupted, and it is summarised.
NextCancel ==
    \/ \E i \in 1..Len(checkers) : RunChecks(i)
    \/ \E i \in 1..Len(checkers) : GetSummary(i)
    \/ \E i \in 1..Len(checkers) :
          \E n \in 0..(Len(ChecksOf(checkers[i].cls)) - 1) :
             RunChecksInterrupted(i, n)

SpecCancel == InitClient /\ [][NextCancel]_vars

\* a caller asks the OMOPDatabase whether table t exists
TableExistsCall(t) ==
    /\ lastOp' = Op("table_exists", 0, t, OMOPObject, "none",
                    OMOPDatabase_table_exists(source, t), 1, {})
    /\ UNCHANGED <<source, connected, registry, checkers>>

\* One checker over an OMOPDatabase whose store is data source 1: the checker
\* runs and is summarised, and callers probe the database for its tables.
InitOMOP ==
    /\ registry = QUALITY_CHECKERS
    /\ \E cls \in Classes :
          /\ checkers = <<NewChecker(cls, OMOPObject)>>
          /\ source \in Sources(cls)
    /\ connected \in BOOLEAN
    /\ lastOp = NoOp

NextOMOP ==
    \/ \E i \in 1..Len(checkers) : RunChecks(i)
    \/ \E i \in 1..Len(checkers) : GetSummary(i)
    \/ \E t \in TableNames : TableExistsCall(t)

SpecOMOP == InitOMOP /\ [][NextOMOP]_vars


-----------------------------------------------------------------------------
(* Properties of the summary rollup *)

\* the results map the last call saw, when it was made on a checker
LastResults == checkers[lastOp.target].results

\* how many entries of the last call's results map have status s
Entries(s) == Cardinality({k \in DOMAIN LastResults : LastResults[k].status = s})

\* C1: for every results map, the empty one included, get_summary returns
\* total = the number of entries, passed = the number of entries with status
\* PASS, failed = the number with status FAIL, warning = the number with
\* status WARNING; on the empty map every count is 0; it raises nothing.
C1_SummaryCounts ==
    lastOp.op = "get_summary" =>
        /\ lastOp.raised = "none"
        /\ lastOp.ret.total_checks = Cardinality(DOMAIN LastResults)
        /\ lastOp.ret.passed_checks = Entries("PASS")
        /\ lastOp.ret.failed_checks = Entries("FAIL")
        /\ lastOp.ret.warning_checks = Entries("WARNING")
        /\ LastResults = EmptyResults =>
              /\ lastOp.ret.total_checks = 0
              /\ lastOp.ret.passed_checks = 0
              /\ lastOp.ret.failed_checks = 0
              /\ lastOp.ret.warning_checks = 0

\* a summary of a map that holds entries of all four statuses
C1_Witness ==
    /\ lastOp.op = "get_summary"
    /\ \A s \in Status : Entries(s) >= 1

\* C2: the summary get_summary returns has a key error_checks whose value is
\* the number of entries of results with status ERROR.
C2_SummaryCountsErrors ==
    lastOp.op = "get_summary" =>
        /\ "error_checks" \in DOMAIN lastOp.ret
        /\ lastOp.ret.error_checks = Entries("ERROR")

\* the sub-records with a status of their own in the data lists of the last
\* call's results map
SubRecordUnits(s) ==
    CountSubRecords(LastResults, SeqOfSet(DOMAIN LastResults), s)

\* C3 (as stated): a sub-record with a status of its own in a check's data
\* list counts as one more unit in total and in the count of its status,
\* beside the parent check.
C3_SubRecordsCounted ==
    lastOp.op = "get_summary" =>
        /\ lastOp.ret.total_checks =
              Cardinality(DOMAIN LastResults)
              + SumSeq([i \in 1..4 |->
                          SubRecordUnits(<<"PASS", "WARNING", "FAIL", "ERROR">>[i])])
        /\ lastOp.ret.passed_checks = Entries("PASS") + SubRecordUnits("PASS")
        /\ lastOp.ret.failed_checks = Entries("FAIL") + SubRecordUnits("FAIL")
        /\ lastOp.ret.warning_checks = Entries("WARNING") + SubRecordUnits("WARNING")

\* C3 (amended): when data lists of results hold sub-records with a status of
\* their own, the summary counts each named check once, by the status of the
\* check itself; no sub-record adds to total or to the count of any status.
C3_SubRecordsNotCounted ==
    (lastOp.op = "get_summary"
     /\ \E s \in Status : SubRecordUnits(s) > 0) =>
        /\ lastOp.ret.total_checks = Cardinality(DOMAIN LastResults)
        /\ lastOp.ret.passed_checks + lastOp.ret.failed_checks
              + lastOp.ret.warning_checks
              = Cardinality(DOMAIN LastResults) - Entries("ERROR")
        /\ \A k \in DOMAIN LastResults :
              LET alone == get_summary(k :> LastResults[k])
                  bare == get_summary(k :> [LastResults[k] EXCEPT !.data = <<>>])
              IN  alone = bare /\ alone.total_checks = 1

\* a summary of a map in which a sub-record's status differs from the status
\* of the check that holds it
C3_Witness ==
    /\ lastOp.op = "get_summary"
    /\ \E k \in DOMAIN LastResults :
          \E i \in 1..Len(LastResults[k].data) :
             LastResults[k].data[i].status # LastResults[k].status

-----------------------------------------------------------------------------
(* Properties of the checker registry *)

\* C4: for each of the five registered names, get_quality_checker(name, db)
\* returns a new instance of the class registered under that name, whose
\* database is db and whose results map is empty; the instances constructed
\* before stay as they were.
C4_FactoryConstructs ==
    [][(lastOp'.op = "get_quality_checker"
        /\ lastOp'.name \in {"completeness", "temporal", "concept_mapping",
                             "referential", "statistical"}) =>
          /\ lastOp'.raised = "none"
          /\ Len(checkers') = Len(checkers) + 1
          /\ SubSeq(checkers', 1, Len(checkers)) = checkers
          /\ lastOp'.target = Len(checkers')
          /\ checkers'[Len(checkers')].cls = QUALITY_CHECKERS[lastOp'.name]
          /\ checkers'[Len(checkers')].database = lastOp'.database
          /\ checkers'[Len(checkers')].results = EmptyResults
          /\ lastOp'.ret = Some(checkers'[Len(checkers')])]_vars

\* a checker constructed over data source 2 after a checker over data
\* source 1 has run its checks
C4_Witness ==
    /\ lastOp.op = "get_quality_checker"
    /\ lastOp.raised = "none"
    /\ lastOp.database = 2
    /\ Len(checkers) = 2
    /\ checkers[1].database = 1
    /\ checkers[1].results # EmptyResults
    /\ checkers[2].results = EmptyResults

\* C5: get_quality_checker called with a name that is not registered raises
\* at once, constructs no checker, hands back no fallback checker, and leaves
\* the registry as it was.
C5_UnknownNameFails ==
    [][(lastOp'.op = "get_quality_checker"
        /\ lastOp'.name \notin DOMAIN QUALITY_CHECKERS) =>
          /\ lastOp'.raised = "ValueError"
          /\ lastOp'.ret = None
          /\ checkers' = checkers
          /\ registry' = registry
          /\ registry' = QUALITY_CHECKERS]_vars

\* an unknown name asked for after a checker has been constructed
C5_Witness ==
    /\ lastOp.op = "get_quality_checker"
    /\ lastOp.name = "nonexistent"
    /\ lastOp.raised = "ValueError"
    /\ Len(checkers) >= 1


-----------------------------------------------------------------------------
(* Properties of run_checks *)

\* the checker the last call was made on, and its data source as it is now
LastChecker == checkers[lastOp.target]
LastSource == DataSource(LastChecker.database, source, connected)

\* the last call was a run_checks before which connection validation succeeds
RanValidated ==
    /\ lastOp.op = "run_checks"
    /\ ValidateDatabaseConnection(LastSource)

\* the last call was a run_checks before which connection validation fails
RanUnvalidated ==
    /\ lastOp.op = "run_checks"
    /\ ~ValidateDatabaseConnection(LastSource)

\* the check names of each category, as the run_checks of its class lists them
CategoryCheckNames(cls) ==
    CASE cls = "CompletenessChecker" ->
           {"table_completeness", "critical_fields", "person_completeness",
            "domain_completeness"}
      [] cls = "TemporalChecker" ->
           {"future_dates", "birth_death_consistency", "events_after_death",
            "visit_date_consistency", "age_temporal_issues"}
      [] cls = "ConceptMappingChecker" ->
           {"unmapped_concepts", "standard_concepts", "vocabulary_coverage",
            "domain_integrity"}
      [] cls = "ReferentialIntegrityChecker" ->
           {"foreign_key_violations", "orphaned_records",
            "person_id_consistency", "visit_relationships", "concept_integrity"}
      [] cls = "StatisticalOutlierChecker" ->
           {"age_outliers", "drug_quantity_outliers", "measurement_outliers",
            "visit_duration_outliers", "distribution_anomalies"}

\* C6 (as stated): on every run whose connection validation succeeds the key
\* set of the map run_checks produces is the fixed set of check names of the
\* category, whatever the data source answers; for the completeness checker
\* the set has five names.
C6_KeySetFixedFiveCompleteness ==
    RanValidated =>
        /\ DOMAIN lastOp.ret = CategoryCheckNames(LastChecker.cls)
        /\ LastChecker.cls = QUALITY_CHECKERS["completeness"] =>
              Cardinality(DOMAIN lastOp.ret) = 5

\* C6 (amended): on every run whose connection validation succeeds the key
\* set of the map run_checks produces is the fixed set of check names of the
\* category, whatever the data source answers; for the completeness checker
\* the set has four names: table_completeness, critical_fields,
\* person_completeness and domain_completeness.
C6_KeySetFixedFourCompleteness ==
    RanValidated =>
        /\ DOMAIN lastOp.ret = CategoryCheckNames(LastChecker.cls)
        /\ LastChecker.cls = QUALITY_CHECKERS["completeness"] =>
              /\ Cardinality(DOMAIN lastOp.ret) = 4
              /\ DOMAIN lastOp.ret =
                    {"table_completeness", "critical_fields",
                     "person_completeness", "domain_completeness"}

\* a validated run of the completeness checker one of whose checks ended in
\* ERROR
C6_Witness ==
    /\ RanValidated
    /\ LastChecker.cls = "CompletenessChecker"
    /\ \E k \in DOMAIN lastOp.ret : lastOp.ret[k].status = "ERROR"

\* C7: after a run_checks, results holds exactly the entries that run
\* produced: no entry an earlier run left and no entry inserted between runs
\* survives.
C7_ResultsReplaced ==
    (lastOp.op = "run_checks" /\ lastOp.raised = "none") =>
        /\ DOMAIN LastChecker.results \subseteq CategoryCheckNames(LastChecker.cls)
        /\ DOMAIN LastChecker.results \cap ClientKeys = {}
        /\ IF lastOp.ret = ConnectionFailed
           THEN LastChecker.results = EmptyResults
           ELSE LastChecker.results = lastOp.ret

\* a run made on a checker whose results held entries of an earlier run and
\* an entry inserted since
C7_Witness ==
    /\ lastOp.op = "run_checks"
    /\ lastOp.raised = "none"
    /\ lastOp.had \cap ClientKeys # {}
    /\ lastOp.had \cap CategoryCheckNames(LastChecker.cls) # {}

\* C8: for every category checker, when connection validation returns false,
\* run_checks returns the single ERROR result with error 'Database connection
\* failed', runs none of its checks and issues no query.
C8_ValidationFailureAbortsRun ==
    RanUnvalidated =>
        /\ lastOp.ret = ConnectionFailed
        /\ lastOp.calls = 0
        /\ LastChecker.results = EmptyResults

\* the data source of the last call with every raising answer to a query
\* that the named check does not read replaced by the healthy answer
WithoutOtherFailures(name) ==
    [LastSource EXCEPT !.ans =
        [q \in DOMAIN @ |->
            IF @[q].raise /\ q \notin ReadsOf(LastChecker.cls, name)
            THEN BaselineAnswer("healthy", q) ELSE @[q]]]

\* C9: whichever queries raise, a run_checks whose connection validation
\* succeeds returns normally with an entry for every named check, and each
\* check none of whose own queries raises carries the status it has when no
\* query of another check raises.
C9_ErrorIsolation ==
    RanValidated =>
        /\ lastOp.raised = "none"
        /\ DOMAIN lastOp.ret = CategoryCheckNames(LastChecker.cls)
        /\ \A name \in CategoryCheckNames(LastChecker.cls) :
              (\A q \in ReadsOf(LastChecker.cls, name) : ~LastSource.ans[q].raise) =>
                 lastOp.ret[name].status
                    = RunCheck(name, WithoutOtherFailures(name)).res.status

\* a run in which a query of one check raises, that check ends in ERROR and
\* another check, whose queries succeed, does not
C9_Witness ==
    /\ RanValidated
    /\ \E failed, other \in CategoryCheckNames(LastChecker.cls) :
          /\ \E q \in ReadsOf(LastChecker.cls, failed) : LastSource.ans[q].raise
          /\ lastOp.ret[failed].status = "ERROR"
          /\ \A q \in ReadsOf(LastChecker.cls, other) : ~LastSource.ans[q].raise
          /\ lastOp.ret[other].status \in {"PASS", "WARNING", "FAIL"}

\* the named checks C10 is stated for
QueryErrorChecks ==
    [CompletenessChecker |-> "person_completeness",
     TemporalChecker |-> "future_dates",
     ConceptMappingChecker |-> "unmapped_concepts"]

\* C10: when every execute_query call raises, the results of
\* CompletenessChecker person_completeness, TemporalChecker future_dates and
\* ConceptMappingChecker unmapped_concepts have status ERROR and a populated
\* error field.
C10_QueryErrorBecomesError ==
    (/\ lastOp.op = "run_checks"
     /\ LastChecker.cls \in DOMAIN QueryErrorChecks
     /\ \A q \in DOMAIN LastSource.ans : LastSource.ans[q].raise) =>
        LET res == LastChecker.results[QueryErrorChecks[LastChecker.cls]]
        IN  res.status = "ERROR" /\ res.error # None

-----------------------------------------------------------------------------
(* Properties of the checks over an OMOPDatabase *)

\* the last call was made on a checker over the OMOPDatabase
OverOMOP == lastOp.target > 0 /\ LastChecker.database = OMOPObject

\* the named checks C11 is stated for, and the query each issues
EngineFailureChecks ==
    [TemporalChecker |-> "future_dates",
     ReferentialIntegrityChecker |-> "foreign_key_violations"]

\* C11: when a check runs against an OMOPDatabase and the query it issues
\* fails inside execute_query, the check ends with status ERROR, never PASS;
\* stated for TemporalChecker future_dates and ReferentialIntegrityChecker
\* foreign_key_violations.
C11_EngineFailureBecomesError ==
    (/\ lastOp.op = "run_checks"
     /\ OverOMOP
     /\ LastChecker.cls \in DOMAIN EngineFailureChecks
     /\ EngineFailureChecks[LastChecker.cls] \in DOMAIN LastChecker.results
     /\ source.ans[<<EngineFailureChecks[LastChecker.cls]>>].raise) =>
        LET res == LastChecker.results[EngineFailureChecks[LastChecker.cls]]
        IN  res.status = "ERROR" /\ res.status # "PASS"


-----------------------------------------------------------------------------
(* Properties of the missing-table guard *)

\* the table each named check cannot do without
RequiredTable ==
    [birth_death_consistency |-> "death",
     events_after_death |-> "death",
     person_id_consistency |-> "person",
     visit_relationships |-> "visit_occurrence",
     concept_integrity |-> "concept",
     age_outliers |-> "person",
     drug_quantity_outliers |-> "drug_exposure",
     measurement_outliers |-> "measurement",
     visit_duration_outliers |-> "visit_occurrence"]

\* the messages that name table t as missing
MissingTableMessages(t) ==
    CASE t = "death" -> {"Death table not found"}
      [] t = "person" ->
           {"Person table not found",
            "Person table not found - skipping age outlier check"}
      [] t = "visit_occurrence" ->
           {"Visit_occurrence table not found",
            "Visit_occurrence table not found - skipping visit duration outlier check"}
      [] t = "concept" ->
           {"Concept table not found - skipping concept integrity check"}
      [] t = "drug_exposure" ->
           {"Drug_exposure table not found - skipping drug quantity outlier check"}
      [] t = "measurement" ->
           {"Measurement table not found - skipping measurement outlier check"}

\* C12: a named check whose required table is absent returns a result with
\* status WARNING whose message names the missing table, and issues no
\* execute_query call; in particular birth_death_consistency and
\* events_after_death when the death table is absent.
C12_MissingTableGuard ==
    lastOp.op = "run_checks" =>
        \A name \in DOMAIN LastChecker.results \cap DOMAIN RequiredTable :
            ~DbTableExists(LastSource, RequiredTable[name]) =>
                LET res == LastChecker.results[name]
                IN  /\ res.status = "WARNING"
                    /\ res.message \in
                          {Some(m) : m \in MissingTableMessages(RequiredTable[name])}
                    /\ RunCheck(name, LastSource).calls = 0


\* C13: OMOPDatabase.table_exists(name) returns true when the store has the
\* table and false when it has not (when the probe query against it fails),
\* for every table name.
C13_TableExistsReportsPresence ==
    lastOp.op = "table_exists" =>
        lastOp.ret = (lastOp.name \notin source.missing)


-----------------------------------------------------------------------------
(* Properties of the classifications *)

\* the zero-tolerance checks of TemporalChecker, and the count column of each
ZeroToleranceColumn ==
    [future_dates |-> "future_count",
     events_after_death |-> "events_after_death"]

\* the sum of column col over the rows of a frame
ColumnTotal(rows, col) == SumSeq([i \in 1..Len(rows) |-> rows[i][col]])

MonotoneChecks ==
    [CompletenessChecker |-> "table_completeness",
     ConceptMappingChecker |-> "unmapped_concepts"]

\* the queries that answer one table's null percentage or one domain's
\* unmapped percentage, and the column of the percentage
PercentageQueries(cls) ==
    {q \in QueriesOf(cls) : q[1] \in {"null_check", "unmapped"}}
PercentageColumn(q) ==
    IF q[1] = "null_check" THEN "null_percentage" ELSE "unmapped_percentage"

\* the order PASS < WARNING < FAIL
StatusRank(s) == CASE s = "PASS" -> 0 [] s = "WARNING" -> 1 [] s = "FAIL" -> 2

\* a status did not move backward in that order (a status outside the order
\* has to stay what it was)
NotBackward(before, after) ==
    IF before \in {"PASS", "WARNING", "FAIL"} /\ after \in {"PASS", "WARNING", "FAIL"}
    THEN StatusRank(before) <= StatusRank(after)
    ELSE before = after

\* the frames that answer query q with a higher percentage than the data
\* source of the last call does
HigherAnswers(q) ==
    LET a == LastSource.ans[q]
    IN  IF a.raise \/ a.rows = <<>> THEN {}
        ELSE {f \in Range(Frames(q)) :
                f[1][PercentageColumn(q)] > a.rows[1][PercentageColumn(q)]}

\* the result of the check C15 is stated for when query q is answered by
\* frame f and every other answer is as in the last call
WithAnswer(q, f) ==
    RunCheck(MonotoneChecks[LastChecker.cls],
             [LastSource EXCEPT !.ans[q] = Frame(f)]).res

\* the statuses of the sub-records of name n in a data list
SubStatuses(data, n) == {data[i].status : i \in {j \in 1..Len(data) : data[j].name = n}}

\* C15: for table_completeness and unmapped_concepts, with every other
\* answer held fixed, raising one table's null percentage (one domain's
\* unmapped percentage) moves neither the status of that sub-record nor the
\* overall status of the check backward in the order PASS < WARNING < FAIL.
C15_PercentageMonotone ==
    (lastOp.op = "run_checks" /\ LastChecker.cls \in DOMAIN MonotoneChecks) =>
        LET before == LastChecker.results[MonotoneChecks[LastChecker.cls]]
        IN  \A q \in PercentageQueries(LastChecker.cls) :
              \A f \in HigherAnswers(q) :
                 /\ NotBackward(before.status, WithAnswer(q, f).status)
                 /\ \A b \in SubStatuses(before.data, q[2]) :
                      /\ SubStatuses(WithAnswer(q, f).data, q[2]) # {}
                      /\ \A a \in SubStatuses(WithAnswer(q, f).data, q[2]) :
                            NotBackward(b, a)

\* a run whose check passed and would, with one percentage raised, end in
\* WARNING, and with it raised further, in FAIL
C15_Witness ==
    /\ lastOp.op = "run_checks"
    /\ LastChecker.cls \in DOMAIN MonotoneChecks
    /\ LastChecker.results[MonotoneChecks[LastChecker.cls]].status = "PASS"
    /\ \E q \in PercentageQueries(LastChecker.cls) :
          /\ \E f \in HigherAnswers(q) : WithAnswer(q, f).status = "WARNING"
          /\ \E f \in HigherAnswers(q) : WithAnswer(q, f).status = "FAIL"


-----------------------------------------------------------------------------
(* Properties of every stored result *)

\* C16: every check result a category checker has stored in results has
\* status ERROR if it has an error field, and has no error field if its
\* status is PASS.
C16_ErrorFieldMeansError ==
    \A i \in 1..Len(checkers) :
        \A k \in DOMAIN checkers[i].results :
            LET res == checkers[i].results[k]
            IN  /\ res.error # None => res.status = "ERROR"
                /\ res.status = "PASS" => res.error = None

\* a results map that holds a result with an error field, a result with
\* status ERROR and no error field, and a result with status PASS
C16_Witness ==
    /\ lastOp.op = "run_checks"
    /\ \E k \in DOMAIN LastChecker.results :
          LastChecker.results[k].error # None
    /\ \E k \in DOMAIN LastChecker.results :
          /\ LastChecker.results[k].status = "ERROR"
          /\ LastChecker.results[k].error = None
    /\ \E k \in DOMAIN LastChecker.results :
          LastChecker.results[k].status = "PASS"


\* a result dict has a status of the four and a message
WellFormedResult(res) ==
    /\ "status" \in DOMAIN res
    /\ res.status \in Status
    /\ "message" \in DOMAIN res
    /\ res.message # None

\* C17: every result run_checks returns or stores, for every category
\* checker and every answer of the data source, the connection-failure
\* result included, has a status among PASS, WARNING, FAIL, ERROR and a
\* message.
C17_StatusAndMessage ==
    (lastOp.op = "run_checks" /\ lastOp.raised = "none") =>
        /\ \A k \in DOMAIN LastChecker.results :
              WellFormedResult(LastChecker.results[k])
        /\ IF "status" \in DOMAIN lastOp.ret
           THEN WellFormedResult(lastOp.ret)
           ELSE \A k \in DOMAIN lastOp.ret : WellFormedResult(lastOp.ret[k])


-----------------------------------------------------------------------------
(* Properties of repeated and reordered runs *)

RECURSIVE AllOrdersGive(_, _, _)
\* in whatever order the named checks of the set remaining are executed
\* against the data source of the last call, starting from the run state
\* run, the results map ends as results
AllOrdersGive(remaining, run, results) ==
    IF remaining = {} THEN run.results = results
    ELSE \A n \in remaining :
            AllOrdersGive(remaining \ {n},
                          RunNamedChecks(<<n>>, LastSource, run), results)

LabelledCancelled(results, ret) ==
    \/ "cancelled" \in DOMAIN results
    \/ \E k \in DOMAIN results : results[k].status = "CANCELLED"
    \/ "cancelled" \in DOMAIN ret

\* C20: when a run_checks invocation stops before all its named checks have
\* run, the checker's results still equals the map of the previous completed
\* run, or the run is labelled cancelled; results never holds only some of
\* the check names.
C20_NoPartialResults ==
    [][(lastOp'.op = "run_checks" /\ lastOp'.raised # "none") =>
          LET before == checkers[lastOp'.target].results
              after == checkers'[lastOp'.target].results
          IN  /\ after = before \/ LabelledCancelled(after, lastOp'.ret)
              /\ \/ DOMAIN after = {}
                 \/ DOMAIN after = CategoryCheckNames(checkers'[lastOp'.target].cls)
                 \/ LabelledCancelled(after, lastOp'.ret)]_vars


-----------------------------------------------------------------------------
(* Properties of what a call leaves alone *)

\* C21: run_checks on one checker leaves the results map of every other
\* checker unchanged, also of a checker built from the same data source;
\* neither run_checks nor get_summary changes the database reference of the
\* checker or the registry (get_summary changes nothing at all).
C21_Frame ==
    [][lastOp'.op \in {"run_checks", "get_summary"} =>
          /\ Len(checkers') = Len(checkers)
          /\ \A j \in 1..Len(checkers) :
                /\ j # lastOp'.target => checkers'[j] = checkers[j]
                /\ checkers'[j].database = checkers[j].database
                /\ checkers'[j].cls = checkers[j].cls
          /\ registry' = registry
          /\ registry' = QUALITY_CHECKERS
          /\ lastOp'.op = "get_summary" => checkers' = checkers]_vars

\* a run of one of two checkers of the same class built from the same data
\* source, made while the other one holds no result yet
C21_Witness ==
    /\ lastOp.op = "run_checks"
    /\ Len(checkers) = 2
    /\ checkers[1].database = checkers[2].database
    /\ checkers[1].cls = checkers[2].cls
    /\ checkers[lastOp.target].results # EmptyResults
    /\ \E j \in 1..2 : j # lastOp.target /\ checkers[j].results = EmptyResults


-----------------------------------------------------------------------------
(* Properties of the classifications of single checks *)

\* the last call was a run of a checker of class cls that ran its checks
RanChecksOf(cls) ==
    /\ lastOp.op = "run_checks"
    /\ LastChecker.cls = cls
    /\ lastOp.ret # ConnectionFailed

\* the rows of the death-before-birth query and the count of the old-age
\* query in the data source of the last call
DeathBeforeBirthRows == Len(LastSource.ans[<<"birth_death">>].rows)
VeryOldDeaths ==
    LET b == LastSource.ans[<<"old_age_deaths">>]
    IN  IF b.rows = <<>> THEN 0 ELSE b.rows[1].very_old_deaths

\* both queries of birth_death_consistency were answered
BirthDeathAnswered ==
    /\ ~LastSource.ans[<<"birth_death">>].raise
    /\ ~LastSource.ans[<<"old_age_deaths">>].raise

table_completeness_warning == 10
table_completeness_fail == 25

\* the classification of a percentage p by a warning and a fail cutoff
ByCutoffs(p, warning, fail) ==
    IF p < warning THEN "PASS" ELSE IF p < fail THEN "WARNING" ELSE "FAIL"

\* C23: table_completeness classifies each table's null percentage p by the
\* cutoffs of the Threshold Config (defaults: warning 10, fail 25): PASS
\* below the warning cutoff, WARNING from it up to the fail cutoff, FAIL from
\* the fail cutoff.
C23_TableCompletenessCutoffs ==
    RanChecksOf("CompletenessChecker") =>
        LET data == LastChecker.results["table_completeness"].data
        IN  \A i \in 1..Len(data) :
               data[i].value # None =>
                  data[i].status = ByCutoffs(data[i].value[1],
                                             table_completeness_warning,
                                             table_completeness_fail)


\* the null count the data source of the last call answers for a critical
\* field, when it answers one
CriticalNullCount(name) ==
    LET a == LastSource.ans[<<"critical", name>>]
    IN  IF a.raise \/ a.rows = <<>> THEN None ELSE Some(a.rows[1].null_count)

\* C24: critical_fields returns overall FAIL whenever at least one of its
\* enumerated fields has a null count of 1 or more, and the sub-record of
\* each such field has status FAIL; the threshold is 0 for every field (a
\* field with no null has a sub-record of status PASS).
C24_CriticalFieldsZeroThreshold ==
    RanChecksOf("CompletenessChecker") =>
        LET res == LastChecker.results["critical_fields"]
        IN  \A name \in Range(CriticalChecks) :
               /\ CriticalThreshold = 0
               /\ (CriticalNullCount(name) # None /\ CriticalNullCount(name)[1] >= 1) =>
                     /\ res.status = "FAIL"
                     /\ SubStatuses(res.data, name) = {"FAIL"}
               /\ CriticalNullCount(name) = Some(0) =>
                     SubStatuses(res.data, name) = {"PASS"}

\* a run in which exactly one critical field had a single null, the check
\* failed and the sub-records of the other fields passed
C24_Witness ==
    /\ RanChecksOf("CompletenessChecker")
    /\ LastChecker.results["critical_fields"].status = "FAIL"
    /\ \E name \in Range(CriticalChecks) :
          /\ CriticalNullCount(name) = Some(1)
          /\ \A other \in Range(CriticalChecks) \ {name} :
                CriticalNullCount(other) = Some(0)


\* the unmapped percentage the data source of the last call answers for a
\* domain, when it answers one
UnmappedPercentage(domain) ==
    LET a == LastSource.ans[<<"unmapped", domain>>]
    IN  IF a.raise \/ a.rows = <<>> THEN None
        ELSE Some(a.rows[1].unmapped_percentage)

StandardAnswer == LastSource.ans[<<"standard_usage">>]

\* the percentage of the usages marked 'S' in a frame, 0 without such a row
MarkedStandard(rows) ==
    LET marked == {i \in 1..Len(rows) : rows[i].standard_concept = "S"}
    IN  IF marked = {} THEN 0
        ELSE rows[CHOOSE i \in marked : \A j \in marked : i <= j].percentage

ForeignKeyAnswer == LastSource.ans[<<"foreign_key_violations">>]

\* what C27 says of the overall status and of the total
ForeignKeyOverall(res, rows) ==
    /\ res.status \in {"PASS", "FAIL"}
    /\ res.status = "FAIL" <=> \E i \in 1..Len(rows) : rows[i].violation_count # 0
    /\ res.metrics.total = ColumnTotal(rows, "violation_count")

\* C27 (as stated): foreign_key_violations returns overall FAIL iff at least
\* one declared relationship has a non-zero violation count, reports the
\* sum of the counts as total_violations, and its data holds one record per
\* declared relationship, FAIL if the relationship has violations and PASS
\* if it has none.
C27_ForeignKeyRecordPerRelationship ==
    (RanChecksOf("ReferentialIntegrityChecker") /\ ~ForeignKeyAnswer.raise) =>
        LET res == LastChecker.results["foreign_key_violations"]
            rows == ForeignKeyAnswer.rows
        IN  /\ ForeignKeyOverall(res, rows)
            /\ Len(res.data) = Len(rows)
            /\ \A i \in 1..Len(rows) :
                  SubStatuses(res.data, rows[i].name)
                     = {IF rows[i].violation_count > 0 THEN "FAIL" ELSE "PASS"}

\* C27 (amended): foreign_key_violations returns overall FAIL iff at least
\* one declared relationship has a non-zero violation count, reports the
\* sum of the counts as total_violations, and its data holds one record,
\* with status FAIL, for each relationship that has violations and no record
\* for a relationship that has none.
C27_ForeignKeyRecordPerViolatedRelationship ==
    (RanChecksOf("ReferentialIntegrityChecker") /\ ~ForeignKeyAnswer.raise) =>
        LET res == LastChecker.results["foreign_key_violations"]
            rows == ForeignKeyAnswer.rows
        IN  /\ ForeignKeyOverall(res, rows)
            /\ Len(res.data)
                  = Cardinality({i \in 1..Len(rows) : rows[i].violation_count > 0})
            /\ \A i \in 1..Len(rows) :
                  SubStatuses(res.data, rows[i].name)
                     = IF rows[i].violation_count > 0 THEN {"FAIL"} ELSE {}

\* a run over an answer in which one relationship has violations and
\* another has none, in which the check failed
C27_Witness ==
    /\ RanChecksOf("ReferentialIntegrityChecker")
    /\ ~ForeignKeyAnswer.raise
    /\ \E i, j \in 1..Len(ForeignKeyAnswer.rows) :
          /\ ForeignKeyAnswer.rows[i].violation_count > 0
          /\ ForeignKeyAnswer.rows[j].violation_count = 0
    /\ LastChecker.results["foreign_key_violations"].status = "FAIL"


\* the four outlier checks, each with its query and its table
OutlierChecks ==
    << [name |-> "age_outliers", query |-> <<"age_outliers">>, table |-> "person"],
       [name |-> "drug_quantity_outliers", query |-> <<"drug_quantity_outliers">>,
        table |-> "drug_exposure"],
       [name |-> "measurement_outliers", query |-> <<"measurement_outliers">>,
        table |-> "measurement"],
       [name |-> "visit_duration_outliers", query |-> <<"visit_duration">>,
        table |-> "visit_occurrence"] >>

\* the number of outliers a non-empty answer to the query of a check holds
OutliersFound(name, rows) ==
    CASE name = "measurement_outliers" -> Len(OutlierMeasurements(rows))
      [] name = "visit_duration_outliers" ->
           ColumnTotal(rows, "negative_durations")
           + ColumnTotal(rows, "very_long_visits")
      [] OTHER -> Len(rows)

\* the last call ran the outlier checks and outlier check c had its table
\* and a successful answer (with rows to summarise, where it summarises)
OutlierAnswered(c) ==
    /\ RanChecksOf("StatisticalOutlierChecker")
    /\ c.table \notin LastSource.missing
    /\ ~LastSource.ans[c.query].raise
    /\ c.name \in {"measurement_outliers", "visit_duration_outliers"}
          => LastSource.ans[c.query].rows # <<>>

\* C28: in StatisticalOutlierChecker, for every successful query answer,
\* each of age_outliers, drug_quantity_outliers, measurement_outliers and
\* visit_duration_outliers returns PASS when it finds no outlier and WARNING
\* when it finds one or more; the presence of outliers never yields FAIL.
C28_OutliersWarnNeverFail ==
    \A k \in 1..Len(OutlierChecks) :
        LET c == OutlierChecks[k]
        IN  OutlierAnswered(c) =>
                LastChecker.results[c.name].status
                    = IF OutliersFound(c.name, LastSource.ans[c.query].rows) = 0
                      THEN "PASS" ELSE "WARNING"


\* an overall PASS of the named check of the last call stands for
\* sub-records that all passed
PassMeansAllPassed(name) ==
    LET res == LastChecker.results[name]
    IN  res.status = "PASS" => AllStatus(res.data, "PASS")

\* C29: in CompletenessChecker, critical_fields and domain_completeness
\* return overall status PASS only if every sub-record in their data has
\* status PASS; a sub-record with status ERROR (a sub-query that raised) is
\* never behind an overall PASS.
C29_CompletenessPassHidesNoError ==
    RanChecksOf("CompletenessChecker") =>
        /\ PassMeansAllPassed("critical_fields")
        /\ PassMeansAllPassed("domain_completeness")


\* the orphan sub-checks of the last call whose table exists and whose
\* query raised
RaisedOrphanChecks ==
    {i \in 1..Len(OrphanChecks) :
        /\ OrphanChecks[i].table \notin LastSource.missing
        /\ LastSource.ans[<<"orphans", OrphanChecks[i].name>>].raise}

\* C30: in ReferentialIntegrityChecker, orphaned_records and
\* concept_integrity return overall status PASS only if every sub-record in
\* their data has status PASS; for orphaned_records, any sub-check that
\* raised makes the overall status ERROR whatever the orphan counts of the
\* other sub-checks.
C30_ReferentialPassHidesNoError ==
    RanChecksOf("ReferentialIntegrityChecker") =>
        /\ PassMeansAllPassed("orphaned_records")
        /\ PassMeansAllPassed("concept_integrity")
        /\ RaisedOrphanChecks # {}
              => LastChecker.results["orphaned_records"].status = "ERROR"

\* a run in which one orphan sub-check raised while another counted a
\* hundred orphans or more, and orphaned_records returned ERROR
C30_Witness ==
    /\ RanChecksOf("ReferentialIntegrityChecker")
    /\ RaisedOrphanChecks # {}
    /\ \E i \in 1..Len(LastChecker.results["orphaned_records"].data) :
          LastChecker.results["orphaned_records"].data[i].status = "FAIL"
    /\ LastChecker.results["orphaned_records"].status = "ERROR"

=============================================================================
